---- MODULE Spec2Model ----
(***************************************************************************)
(* Save-state persistence and restoration of the ROM player                *)
(* (src/src/player.ts, lines 1-1351): the IndexedDB save records, the      *)
(* restoration controller with its retry timers, the lifecycle hooks and   *)
(* destroy().                                                              *)
(***************************************************************************)
EXTENDS Integers, Sequences, FiniteSets, TLC

(***************************************************************************)
(* Bounds of the model.                                                    *)
(***************************************************************************)
\* Date.now() takes the values 0..MaxClock.
MaxClock == 2
\* Host and engine events (calls of the facade, hook firings, engine and
\* slot changes) in one behaviour.
MaxEvents == 3
\* loadPersistedState and persistState('manual') calls suspended on the store
\* at the same time.
MaxAsync == 2
\* startRomPlayer calls in one behaviour.
MaxStarts == 4

(***************************************************************************)
(* 32-bit words as <<high 16 bits, low 16 bits>>.                          *)
(***************************************************************************)
Half == 65536

RECURSIVE XorBits(_, _, _)
XorBits(a, b, n) ==
    IF n = 0 THEN 0
    ELSE (((a % 2) + (b % 2)) % 2) + 2 * XorBits(a \div 2, b \div 2, n - 1)

Xor32(x, y) == <<XorBits(x[1], y[1], 16), XorBits(x[2], y[2], 16)>>

\* x >>> n, for n < 16
Shr32(x, n) ==
    LET p == 2 ^ n
    IN  <<x[1] \div p, (x[2] \div p) + ((x[1] % p) * (Half \div p))>>

\* 0xEDB88320
CrcPoly == <<60856, 33568>>

RECURSIVE CrcEntry(_, _)
CrcEntry(crc, j) ==
    IF j = 0 THEN crc
    ELSE CrcEntry(IF crc[2] % 2 = 1 THEN Xor32(CrcPoly, Shr32(crc, 1))
                                    ELSE Shr32(crc, 1), j - 1)

\* The bytes that occur in the save payloads of this model.
Bytes == 0..9

\* crcTable[i], for the indices (crc ^ data[i]) & 0xFF can take
crcTable == [i \in 0..255 |-> CrcEntry(<<0, i>>, 8)]

RECURSIVE CrcLoop(_, _, _)
CrcLoop(crc, data, i) ==
    IF i > Len(data) THEN crc
    ELSE CrcLoop(Xor32(crcTable[XorBits(crc[2] % 256, data[i], 8)], Shr32(crc, 8)),
                 data, i + 1)

HexChars == <<"0", "1", "2", "3", "4", "5", "6", "7",
              "8", "9", "A", "B", "C", "D", "E", "F">>

\* four upper-case hex digits of a 16-bit value, zero padded
Hex16(v) ==
    HexChars[(v \div 4096) + 1] \o HexChars[((v \div 256) % 16) + 1]
        \o HexChars[((v \div 16) % 16) + 1] \o HexChars[(v % 16) + 1]

computeCrc32(data) ==
    LET crc == Xor32(CrcLoop(<<65535, 65535>>, data, 1), <<65535, 65535>>)
    IN  Hex16(crc[1]) \o Hex16(crc[2])

(***************************************************************************)
(* Save payloads, save states and stored records.                          *)
(***************************************************************************)
\* an optional value: <<>> is null/undefined, <<x>> is x
None == <<>>
Some(x) == <<x>>

\* no numeric updatedAt (null)
NoTime == -1

\* metadata.persistId, metadata.id: the deduplicated key list of the instance
persistenceKeys == <<"persist", "rom">>
Keys == {persistenceKeys[i] : i \in 1..Len(persistenceKeys)}

\* a record of the object store: nothing, {saves: [...]}, the legacy
\* {data, updatedAt}, or a bare ArrayBuffer
Absent == [kind |-> "absent", data |-> <<>>, updatedAt |-> NoTime, saves |-> <<>>]
Multi(saves) == [kind |-> "multi", data |-> <<>>, updatedAt |-> NoTime, saves |-> saves]
Legacy(data, t) == [kind |-> "legacy", data |-> data, updatedAt |-> t, saves |-> <<>>]
Buffer(data) == [kind |-> "buffer", data |-> data, updatedAt |-> NoTime, saves |-> <<>>]
\* { saves: [null] }: a saves array whose one element is no save
Malformed == [kind |-> "malformed", data |-> <<>>, updatedAt |-> NoTime, saves |-> <<>>]

\* a writer that stamps every SaveState with the checksum of no data at all
NewSaveStaleChecksum(data, t, isAutoSave) ==
    [data |-> data, updatedAt |-> t, crc32 |-> computeCrc32(<<>>), isAutoSave |-> isAutoSave]

\* PersistedSaveState, as writePersistedSave builds it
NewSave(data, t, isAutoSave) ==
    [data |-> data, updatedAt |-> t, crc32 |-> computeCrc32(data), isAutoSave |-> isAutoSave]

\* Array.prototype.sort((a, b) => b.updatedAt - a.updatedAt): stable, descending
RECURSIVE InsertDesc(_, _)
InsertDesc(sorted, s) ==
    IF sorted = <<>> THEN <<s>>
    ELSE IF Head(sorted).updatedAt >= s.updatedAt
         THEN <<Head(sorted)>> \o InsertDesc(Tail(sorted), s)
         ELSE <<s>> \o sorted

RECURSIVE SortDesc(_)
SortDesc(seq) ==
    IF seq = <<>> THEN <<>>
    ELSE InsertDesc(SortDesc(SubSeq(seq, 1, Len(seq) - 1)), seq[Len(seq)])

\* a writer that starts every record afresh
ExistingSavesForgotten(record) == <<>>

\* existingRecord?.saves ?? []
ExistingSaves(record) == IF record.kind = "multi" THEN record.saves ELSE <<>>

\* a writer whose replacement of slot 0 loses the history behind it
UpdatedSavesWithoutTail(existingSaves, newSave, createNewState) ==
    SortDesc(IF createNewState THEN <<newSave>> \o existingSaves ELSE <<newSave>>)

\* a writer that puts the list as it has built it
UpdatedSavesUnsorted(existingSaves, newSave, createNewState) ==
    IF createNewState THEN <<newSave>> \o existingSaves
    ELSE IF Len(existingSaves) > 0 THEN <<newSave>> \o Tail(existingSaves)
    ELSE <<newSave>>

\* the saves writePersistedSave puts: prepend, or replace slot 0, then sort
UpdatedSaves(existingSaves, newSave, createNewState) ==
    SortDesc(IF createNewState
             THEN <<newSave>> \o existingSaves
             ELSE IF Len(existingSaves) > 0
                  THEN <<newSave>> \o Tail(existingSaves)
                  ELSE <<newSave>>)

\* the success callback of the write's store.get runs to its put: over
\* { saves: [null] } the comparator of the sort (line 196) reads updatedAt of
\* null when createNewState keeps that element beside the new save, the
\* callback throws outside the try of line 150 and resolve is never called
WriteSettles(record, dataOpt, createNewState) ==
    ~(record.kind = "malformed" /\ dataOpt # None /\ createNewState)

\* the success callback of the read's store.get runs to its resolve: over
\* { saves: [null] } the map of line 263 reads data of null and throws
ReadSettles(record) == record.kind # "malformed"

\* writePersistedSave(romId, data, createNewState, isAutoSave) on store st at
\* Date.now() = t; dataOpt = None deletes the record; ok = FALSE is an
\* unavailable database or a failed request, which leaves the store alone
writePersistedSave(st, romId, dataOpt, createNewState, isAutoSave, t, ok) ==
    IF ~ok THEN st
    ELSE IF dataOpt = None THEN [st EXCEPT ![romId] = Absent]
    ELSE [st EXCEPT ![romId] =
            Multi(UpdatedSaves(ExistingSaves(st[romId]),
                               NewSave(dataOpt[1], t, isAutoSave), createNewState))]

\* save.isAutoSave ?? false, data copied
StoredSave(save) ==
    [data |-> save.data, updatedAt |-> save.updatedAt, crc32 |-> save.crc32,
     isAutoSave |-> save.isAutoSave]

\* a reader that knows the {data, updatedAt} record but not the bare buffer
readPersistedSavesNoBuffer(record, t, ok) ==
    IF ~ok \/ record.kind \in {"absent", "buffer"} THEN <<>>
    ELSE IF record.kind = "multi"
         THEN [i \in 1..Len(record.saves) |-> StoredSave(record.saves[i])]
         ELSE <<[data |-> record.data,
                 updatedAt |-> IF record.updatedAt = NoTime THEN t ELSE record.updatedAt,
                 crc32 |-> computeCrc32(record.data),
                 isAutoSave |-> FALSE]>>

\* readPersistedSaves(romId).saves for the stored record, read at Date.now() = t;
\* ok = FALSE is an unavailable database or a failed request; over a malformed
\* record the read resolves only then (ReadSettles)
readPersistedSaves(record, t, ok) ==
    IF ~ok \/ record.kind \in {"absent", "malformed"} THEN <<>>
    ELSE IF record.kind = "multi"
         THEN [i \in 1..Len(record.saves) |-> StoredSave(record.saves[i])]
         ELSE <<[data |-> record.data,
                 updatedAt |-> IF record.updatedAt = NoTime THEN t ELSE record.updatedAt,
                 crc32 |-> computeCrc32(record.data),
                 isAutoSave |-> FALSE]>>

(***************************************************************************)
(* The engine (globalThis.EJS_emulator) as the controller sees it.         *)
(***************************************************************************)
\* the save payloads of the model
SaveA == <<1, 2, 3>>
SaveB == <<4, 5>>
\* the state a freshly started engine returns from getState
FreshState == <<7>>

Call(api, data) == [api |-> api, data |-> data]

\* EJS_emulator is null or undefined
NoEmulator ==
    [status |-> "none", events |-> FALSE, getState |-> "absent", loadState |-> "absent",
     setState |-> "absent", fs |-> "absent", state |-> <<>>, file |-> None]

\* an engine object: status "noManager" has no gameManager yet; events is
\* whether emulator.events exists; getState/loadState/setState are "absent",
\* "ok", "throws" (getState also "empty": an empty payload); fs is "absent"
\* (no FS or no save path), "ok" or "writeFails" (writeFile throws)
Engine(status, events, getState, loadState, setState, fs, file) ==
    [status |-> status, events |-> events, getState |-> getState, loadState |-> loadState,
     setState |-> setState, fs |-> fs, state |-> FreshState, file |-> file]

\* the engines the host may put into the global slot
EngineProfiles ==
    { Engine("ready", TRUE, "ok", "ok", "absent", "absent", None),
      Engine("ready", FALSE, "ok", "ok", "absent", "absent", None),
      Engine("noManager", TRUE, "absent", "absent", "absent", "absent", None),
      Engine("ready", FALSE, "throws", "throws", "ok", "absent", None),
      Engine("ready", FALSE, "empty", "absent", "absent", "ok", Some(SaveA)),
      Engine("ready", FALSE, "absent", "throws", "throws", "writeFails", Some(SaveA)),
      Engine("ready", FALSE, "ok", "rejectsB", "absent", "absent", None) }

\* writeSaveToFilesystem(emulator, data): [ok, emulator, calls]
writeSaveToFilesystem(emu, data) ==
    IF emu.status # "ready" \/ emu.fs = "absent"
    THEN [ok |-> FALSE, emulator |-> emu, calls |-> <<>>]
    ELSE LET unlinked == IF emu.file # None THEN <<Call("unlink", <<>>)>> ELSE <<>>
         IN  IF emu.fs = "ok"
             THEN [ok |-> TRUE, emulator |-> [emu EXCEPT !.file = Some(data)],
                   calls |-> unlinked \o <<Call("writeFile", data)>>]
             ELSE [ok |-> FALSE, emulator |-> [emu EXCEPT !.file = None],
                   calls |-> unlinked \o <<Call("writeFile", data)>>]

\* manager.loadState(data) returns: "ok" takes any bytes, "rejectsB" throws on
\* the payload SaveB (a state the core cannot read) and takes the others
LoadStateAccepts(emu, data) ==
    emu.loadState = "ok" \/ (emu.loadState = "rejectsB" /\ data # SaveB)

\* the loadState strategy of applyPendingState: [restored, emulator, initialized, calls]
TryLoadState(data, emu, initialized) ==
    IF emu.loadState = "absent"
    THEN [restored |-> FALSE, emulator |-> emu, initialized |-> initialized, calls |-> <<>>]
    ELSE LET probe == ~initialized /\ emu.getState # "absent"
             init2 == initialized \/ (probe /\ emu.getState # "throws")
             pre == IF probe THEN <<Call("getState", <<>>)>> ELSE <<>>
         IN  IF LoadStateAccepts(emu, data)
             THEN [restored |-> TRUE, emulator |-> [emu EXCEPT !.state = data],
                   initialized |-> init2, calls |-> pre \o <<Call("loadState", data)>>]
             ELSE [restored |-> FALSE, emulator |-> emu,
                   initialized |-> init2, calls |-> pre \o <<Call("loadState", data)>>]

\* the setState strategy
TrySetState(data, emu) ==
    IF emu.setState = "absent" THEN [restored |-> FALSE, emulator |-> emu, calls |-> <<>>]
    ELSE IF emu.setState = "ok"
         THEN [restored |-> TRUE, emulator |-> [emu EXCEPT !.state = data],
               calls |-> <<Call("setState", data)>>]
         ELSE [restored |-> FALSE, emulator |-> emu, calls |-> <<Call("setState", data)>>]

\* a filesystem strategy that announces the save file whether or not it was written
TryFilesystemAlwaysLoads(data, emu) ==
    LET w == writeSaveToFilesystem(emu, data)
    IN  [restored |-> w.ok, emulator |-> w.emulator,
         calls |-> w.calls \o <<Call("loadSaveFiles", <<>>), Call("callEventLoad", <<>>)>>]

\* the filesystem strategy with loadSaveFiles and callEvent('load')
TryFilesystem(data, emu) ==
    LET w == writeSaveToFilesystem(emu, data)
    IN  [restored |-> w.ok, emulator |-> w.emulator,
         calls |-> w.calls \o (IF w.ok THEN <<Call("loadSaveFiles", <<>>), Call("callEventLoad", <<>>)>>
                                        ELSE <<>>)]

\* an apply that keeps the bytes of a save no strategy could commit
applyPendingStateKeepsFailed(pending, emu, initialized) ==
    IF pending = None \/ Len(pending[1]) = 0
    THEN [outcome |-> "failed", pendingState |-> pending, emulator |-> emu,
          initialized |-> initialized, calls |-> <<>>]
    ELSE IF emu.status # "ready"
    THEN [outcome |-> "queued", pendingState |-> pending, emulator |-> emu,
          initialized |-> initialized, calls |-> <<>>]
    ELSE LET a == TryLoadState(pending[1], emu, initialized)
             b == IF a.restored THEN [restored |-> TRUE, emulator |-> a.emulator, calls |-> <<>>]
                  ELSE TrySetState(pending[1], a.emulator)
             c == IF b.restored THEN [restored |-> TRUE, emulator |-> b.emulator, calls |-> <<>>]
                  ELSE TryFilesystem(pending[1], b.emulator)
         IN  [outcome |-> IF c.restored THEN "restored" ELSE "failed",
              pendingState |-> IF c.restored THEN None ELSE pending, emulator |-> c.emulator,
              initialized |-> a.initialized, calls |-> a.calls \o b.calls \o c.calls]

\* applyPendingState(reason): [outcome, pendingState, emulator, initialized, calls]
applyPendingState(pending, emu, initialized) ==
    IF pending = None \/ Len(pending[1]) = 0
    THEN [outcome |-> "failed", pendingState |-> pending, emulator |-> emu,
          initialized |-> initialized, calls |-> <<>>]
    ELSE IF emu.status # "ready"
    THEN [outcome |-> "queued", pendingState |-> pending, emulator |-> emu,
          initialized |-> initialized, calls |-> <<>>]
    ELSE LET a == TryLoadState(pending[1], emu, initialized)
             b == IF a.restored THEN [restored |-> TRUE, emulator |-> a.emulator, calls |-> <<>>]
                  ELSE TrySetState(pending[1], a.emulator)
             c == IF b.restored THEN [restored |-> TRUE, emulator |-> b.emulator, calls |-> <<>>]
                  ELSE TryFilesystem(pending[1], b.emulator)
         IN  [outcome |-> IF c.restored THEN "restored" ELSE "failed",
              pendingState |-> None, emulator |-> c.emulator,
              initialized |-> a.initialized, calls |-> a.calls \o b.calls \o c.calls]

(***************************************************************************)
(* State.                                                                  *)
(***************************************************************************)
VARIABLES
    store,                  \* the "saves" object store: key -> record
    now,                    \* the last value Date.now() returned
    emulator,               \* globalThis.EJS_emulator
    initialized,            \* initializedManagers has the current gameManager
    listeners,              \* gameStartHandlers in emulator.events['game-start'].functions
    EJS_ready,              \* the global ready slot: "none", "host", "wrapper", "other"
    EJS_onGameStart,        \* the global game-start slot, likewise
    previousReady,          \* the callback captured at setup: "none" or "host"
    previousOnGameStart,
    pendingState,           \* None or Some(bytes)
    retryAttempt,
    startupLoadAttempted,
    timers,                 \* the timeouts and intervals of this instance the runtime holds
    activeTimeouts,         \* the registries of handles
    activeIntervals,
    loads,                  \* loadPersistedState calls suspended on a store read
    persists,               \* persistState('manual') calls suspended on a store write
    lists,                  \* listSaves calls suspended on a store read
    config,                 \* what the player was started with: ids, indexedDB present
    destroyPhase,           \* "idle", "saving", "releaseH", "releaseM"
    destroyData,            \* the state persistState('destroy') captured
    destroyIdx,             \* the next key persistState('destroy') writes
    destroyed,              \* instance.destroyed
    events,                 \* host and engine events so far
    out,                    \* what the last step did
    chain,                  \* history: the retry chain since the last queued load
    run,                    \* history: what the destroy in progress has done
    destroys,               \* history: destroy() promises resolved
    manualSaveFailed,       \* history: a persistSave call returned false
    retries,                \* history: retry timers scheduled for the PendingState held
    registry,               \* the module's activePlayer, its destroy promise, the instances
    database                \* the module's saveDatabasePromise, the open requests, indexedDB

storeVars == <<store, now>>
engineVars == <<emulator, initialized, listeners>>
hookVars == <<EJS_ready, EJS_onGameStart, previousReady, previousOnGameStart>>
ctrlVars == <<pendingState, retryAttempt, startupLoadAttempted>>
timerVars == <<timers, activeTimeouts, activeIntervals>>
asyncVars == <<loads, persists, lists>>
destroyVars == <<destroyPhase, destroyData, destroyIdx, destroyed>>
histVars == <<chain, run, destroys, manualSaveFailed, retries>>

moduleVars == <<config, registry, database>>

vars == <<moduleVars, storeVars, engineVars, hookVars, ctrlVars, timerVars, asyncVars,
          destroyVars, events, out, histVars>>

\* no player started: null is 0, and so are a promise that is resolved and
\* the callback of the host in the hook slots
NoPlayers ==
    [activePlayer |-> 0, activePlayerDestroyPromise |-> 0, awaited |-> <<>>,
     instances |-> <<>>, slot |-> 0, inTask |-> FALSE]

\* saveDatabasePromise is null (0) or the promise it holds, by its number;
\* a promise is "pending" or resolved with "db" or "null"; a request of
\* indexedDB.open is "pending", "blocked" (still to succeed or fail) or "done"
NoDatabase ==
    [indexedDB |-> TRUE, saveDatabasePromise |-> 0, promises |-> <<>>, requests |-> <<>>]

\* an openSaveDatabase that opens again once the open it remembers gave no
\* database
openSaveDatabaseRetriesUnavailable(d, throws) ==
    IF ~d.indexedDB THEN [database |-> d, promise |-> 0]
    ELSE IF d.saveDatabasePromise = 0 \/ d.promises[d.saveDatabasePromise] = "null"
    THEN [database |-> [d EXCEPT !.saveDatabasePromise = Len(d.promises) + 1,
                                 !.promises = Append(@, IF throws THEN "null" ELSE "pending"),
                                 !.requests = Append(@, IF throws THEN "done" ELSE "pending")],
          promise |-> Len(d.promises) + 1]
    ELSE [database |-> d, promise |-> d.saveDatabasePromise]

\* openSaveDatabase(): the promise returned, 0 for the Promise.resolve(null) of
\* a process without indexedDB; throws: indexedDB.open throws, which the
\* executor catches. The n-th promise is the one of the n-th indexedDB.open.
openSaveDatabase(d, throws) ==
    IF ~d.indexedDB THEN [database |-> d, promise |-> 0]
    ELSE IF d.saveDatabasePromise = 0
    THEN [database |-> [d EXCEPT !.saveDatabasePromise = Len(d.promises) + 1,
                                 !.promises = Append(@, IF throws THEN "null" ELSE "pending"),
                                 !.requests = Append(@, IF throws THEN "done" ELSE "pending")],
          promise |-> Len(d.promises) + 1]
    ELSE [database |-> d, promise |-> d.saveDatabasePromise]

Out(op, ret, calls, info) == [op |-> op, ret |-> ret, calls |-> calls, info |-> info]

NumKeys == Len(persistenceKeys)

NoChain == [clean |-> FALSE, fired |-> 0, waited |-> 0]
NoRun == [calls |-> 0, clears |-> 0, captures |-> 0, writes |-> 0]

\* stored records at start: written at times before now
Save0(data) == NewSave(data, 0, FALSE)
Save1(data) == NewSave(data, 1, FALSE)

LegacyStore == [k \in Keys |-> IF k = "persist" THEN Legacy(SaveA, 0) ELSE Absent]
MalformedStore ==
    [k \in Keys |-> IF k = "rom" THEN Malformed ELSE Multi(<<Save0(SaveA)>>)]
HistoryStore ==
    [k \in Keys |-> IF k = "rom" THEN Multi(<<Save1(SaveB), Save0(SaveA)>>) ELSE Absent]
MultiStore ==
    [k \in Keys |-> IF k = "persist" THEN Multi(<<Save0(SaveA)>>)
                    ELSE Multi(<<Save1(SaveB), Save0(SaveA)>>)]

(***************************************************************************)
(* The closure state of setupPersistentSave as one record, so that the     *)
(* helpers below compose the way the calls in the code nest.               *)
(***************************************************************************)
Ctx ==
    [pendingState |-> pendingState, retryAttempt |-> retryAttempt,
     startupLoadAttempted |-> startupLoadAttempted,
     emulator |-> emulator, initialized |-> initialized, listeners |-> listeners,
     timers |-> timers, activeTimeouts |-> activeTimeouts, activeIntervals |-> activeIntervals,
     loads |-> loads,
     calls |-> <<>>, outcome |-> "none", registered |-> FALSE, ret |-> FALSE, tried |-> 0,
     first |-> NoTime, scheduled |-> 0, atPrevious |-> <<>>]

SetCtx(c) ==
    /\ pendingState' = c.pendingState
    /\ retryAttempt' = c.retryAttempt
    /\ startupLoadAttempted' = c.startupLoadAttempted
    /\ emulator' = c.emulator
    /\ initialized' = c.initialized
    /\ listeners' = c.listeners
    /\ timers' = c.timers
    /\ activeTimeouts' = c.activeTimeouts
    /\ activeIntervals' = c.activeIntervals
    /\ loads' = c.loads

maxRetries == 8
maxPolls == 50
HookDelay == 100
PollDelay == 200
RetryBase == 200
RetryCap == 30000

\* the handle setTimeout/setInterval returns: the least one not in use
FreshId(c) ==
    LET used == {c.timers[i].id : i \in DOMAIN c.timers}
                    \cup c.activeTimeouts \cup c.activeIntervals
    IN  CHOOSE n \in 1..(Cardinality(used) + 1) :
            n \notin used /\ \A m \in 1..(n - 1) : m \in used

Timer(id, kind, delay) == [id |-> id, kind |-> kind, delay |-> delay, count |-> 0]

scheduleTimeout(c, kind, delay) ==
    LET id == FreshId(c)
    IN  [c EXCEPT !.timers = Append(@, Timer(id, kind, delay)),
                  !.activeTimeouts = @ \cup {id}]

scheduleInterval(c, kind, delay) ==
    LET id == FreshId(c)
    IN  [c EXCEPT !.timers = Append(@, Timer(id, kind, delay)),
                  !.activeIntervals = @ \cup {id}]

\* clearTimeout/clearInterval of one handle
Unschedule(ts, ids) == SelectSeq(ts, LAMBDA t : t.id \notin ids)

clearAllScheduled(c) ==
    [c EXCEPT !.timers = Unschedule(@, c.activeTimeouts \cup c.activeIntervals),
              !.activeTimeouts = {},
              !.activeIntervals = {}]

Min(a, b) == IF a <= b THEN a ELSE b

\* a backoff that grows by the base delay per attempt
RetryDelayLinear(attempt) == Min(RetryBase * (attempt + 1), RetryCap)

\* Math.min(200 * Math.pow(2, retryAttempt), 30000)
RetryDelay(attempt) == Min(RetryBase * (2 ^ attempt), RetryCap)

\* a scheduler whose cap lets one more attempt through
retryApplyPendingStatePastCap(c) ==
    IF c.pendingState = None THEN c
    ELSE IF c.retryAttempt > maxRetries THEN [c EXCEPT !.pendingState = None]
    ELSE scheduleTimeout([c EXCEPT !.retryAttempt = @ + 1, !.scheduled = @ + 1],
                         "retry", RetryDelay(c.retryAttempt))

retryApplyPendingState(c) ==
    IF c.pendingState = None THEN c
    ELSE IF c.retryAttempt >= maxRetries THEN [c EXCEPT !.pendingState = None]
    ELSE scheduleTimeout([c EXCEPT !.retryAttempt = @ + 1, !.scheduled = @ + 1],
                         "retry", RetryDelay(c.retryAttempt))

\* applyPendingState on the closure state
Apply(c) ==
    LET r == applyPendingState(c.pendingState, c.emulator, c.initialized)
    IN  [c EXCEPT !.pendingState = r.pendingState, !.emulator = r.emulator,
                  !.initialized = r.initialized, !.calls = @ \o r.calls,
                  !.outcome = r.outcome]

\* a loadPersistedState call up to its first await
NewLoad(reason, ts) ==
    [reason |-> reason, ts |-> ts, idx |-> 1, cands |-> <<>>, newest |-> NoTime,
     seen |-> <<>>]

StartLoad(c, reason, ts) == [c EXCEPT !.loads = Append(@, NewLoad(reason, ts))]

\* a trigger that does not look at the flag
triggerStartupLoadAgain(c, reason) ==
    StartLoad([c EXCEPT !.startupLoadAttempted = TRUE], reason, NoTime)

triggerStartupLoad(c, reason) ==
    IF c.startupLoadAttempted THEN c
    ELSE StartLoad([c EXCEPT !.startupLoadAttempted = TRUE], reason, NoTime)

\* the body shared by the game-start, onGameStart, ready-fallback,
\* existing-emulator-fallback and poll-success callbacks
SignalApply(c, reason) ==
    IF c.pendingState # None
    THEN LET a == Apply(c)
         IN  IF a.outcome = "queued"
             THEN retryApplyPendingState([a EXCEPT !.retryAttempt = 0])
             ELSE a
    ELSE triggerStartupLoad(c, reason)

setupGameStartListener(c) ==
    IF c.emulator.status = "none" \/ ~c.emulator.events
    THEN [c EXCEPT !.registered = FALSE]
    ELSE [c EXCEPT !.registered = TRUE, !.listeners = @ + 1]

\* a loop that hands a queued candidate to the retries with the counter as it is
RECURSIVE ApplyCandidatesKeepsCounter(_, _, _)
ApplyCandidatesKeepsCounter(c, cands, i) ==
    IF i > Len(cands) THEN [c EXCEPT !.pendingState = None, !.ret = FALSE]
    ELSE LET a == Apply([c EXCEPT !.pendingState = Some(cands[i].data), !.tried = @ + 1,
                                  !.first = IF i = 1 THEN cands[i].updatedAt ELSE @])
         IN  IF a.outcome = "restored" THEN [a EXCEPT !.ret = TRUE]
             ELSE IF a.outcome = "queued"
             THEN [retryApplyPendingState(a) EXCEPT !.ret = FALSE]
             ELSE ApplyCandidatesKeepsCounter([a EXCEPT !.pendingState = None], cands, i + 1)

\* a loop that goes on to the older candidates after a restore
RECURSIVE ApplyCandidatesPastRestore(_, _, _)
ApplyCandidatesPastRestore(c, cands, i) ==
    IF i > Len(cands) THEN [c EXCEPT !.pendingState = None]
    ELSE LET a == Apply([c EXCEPT !.pendingState = Some(cands[i].data), !.tried = @ + 1,
                                  !.first = IF i = 1 THEN cands[i].updatedAt ELSE @])
         IN  IF a.outcome = "restored"
             THEN ApplyCandidatesPastRestore([a EXCEPT !.ret = TRUE], cands, i + 1)
             ELSE IF a.outcome = "queued"
             THEN [retryApplyPendingState([a EXCEPT !.retryAttempt = 0]) EXCEPT !.ret = FALSE]
             ELSE ApplyCandidatesPastRestore([a EXCEPT !.pendingState = None], cands, i + 1)

\* the candidates loop of loadPersistedState
RECURSIVE ApplyCandidates(_, _, _)
ApplyCandidates(c, cands, i) ==
    IF i > Len(cands) THEN [c EXCEPT !.pendingState = None, !.ret = FALSE]
    ELSE LET a == Apply([c EXCEPT !.pendingState = Some(cands[i].data), !.tried = @ + 1,
                                  !.first = IF i = 1 THEN cands[i].updatedAt ELSE @])
         IN  IF a.outcome = "restored" THEN [a EXCEPT !.ret = TRUE]
             ELSE IF a.outcome = "queued"
             THEN [retryApplyPendingState([a EXCEPT !.retryAttempt = 0]) EXCEPT !.ret = FALSE]
             ELSE ApplyCandidates([a EXCEPT !.pendingState = None], cands, i + 1)

\* a timestamp search that falls back to the key's newest save
CandidatesOfOrNewest(key, saves, ts) ==
    IF saves = <<>> \/ Len(saves[1].data) = 0 THEN <<>>
    ELSE LET hits == {i \in DOMAIN saves : saves[i].updatedAt = ts}
             i == IF hits = {} THEN 1 ELSE CHOOSE x \in hits : \A y \in hits : x <= y
         IN  <<[key |-> key, data |-> saves[i].data, updatedAt |-> saves[i].updatedAt]>>

\* what one key's save list adds to the candidates
CandidatesOf(key, saves, ts) ==
    IF saves = <<>> THEN <<>>
    ELSE IF ts # NoTime
    THEN LET hits == {i \in DOMAIN saves : saves[i].updatedAt = ts}
         IN  IF hits = {} THEN <<>>
             ELSE LET i == CHOOSE x \in hits : \A y \in hits : x <= y
                  IN  IF Len(saves[i].data) > 0
                      THEN <<[key |-> key, data |-> saves[i].data, updatedAt |-> saves[i].updatedAt]>>
                      ELSE <<>>
    ELSE IF Len(saves[1].data) > 0
         THEN <<[key |-> key, data |-> saves[1].data, updatedAt |-> saves[1].updatedAt]>>
         ELSE <<>>

\* a load that applies its candidates in key order, unsorted
FinishLoadUnsorted(c, cands) ==
    IF cands = <<>> THEN [c EXCEPT !.pendingState = None, !.ret = FALSE]
    ELSE ApplyCandidates(c, cands, 1)

\* the sorted candidates applied once every key is read
FinishLoad(c, cands) ==
    IF cands = <<>> THEN [c EXCEPT !.pendingState = None, !.ret = FALSE]
    ELSE ApplyCandidates(c, SortDesc(cands), 1)

\* a value manager.getState() may return: the fields it is wrapped in, outermost
\* first, around a leaf that is bytes or something else (a number, an object
\* with neither field, null)
Payload(wrap, leaf, bytes) == [wrap |-> wrap, leaf |-> leaf, bytes |-> bytes]

\* what the engine's getState returns when it does not throw
GetStateResult(emu) ==
    IF emu.getState = "ok" THEN Payload(<<>>, "bytes", emu.state)
    ELSE IF emu.getState = "empty" THEN Payload(<<>>, "bytes", <<>>)
    ELSE IF emu.getState = "nestedState" THEN Payload(<<"state">>, "bytes", emu.state)
    ELSE IF emu.getState = "nestedSave" THEN Payload(<<"save">>, "bytes", emu.state)
    ELSE Payload(<<>>, "other", <<>>)

\* an extractor that unwraps the state field only
RECURSIVE extractSavePayloadStateOnly(_)
extractSavePayloadStateOnly(payload) ==
    IF payload.wrap = <<>>
    THEN IF payload.leaf = "bytes" THEN Some(payload.bytes) ELSE None
    ELSE IF Head(payload.wrap) = "state"
         THEN extractSavePayloadStateOnly([payload EXCEPT !.wrap = Tail(@)])
         ELSE None

\* extractSavePayload(payload): the bytes, or null
RECURSIVE extractSavePayload(_)
extractSavePayload(payload) ==
    IF payload.wrap = <<>>
    THEN IF payload.leaf = "bytes" THEN Some(payload.bytes) ELSE None
    ELSE IF Head(payload.wrap) \in {"state", "save"}
         THEN extractSavePayload([payload EXCEPT !.wrap = Tail(@)])
         ELSE None

\* persistState up to its first await: the payload captured, if any
\* [data, emulator-side effects: initialized, calls]
Capture(emu, init) ==
    IF emu.status # "ready" \/ emu.getState = "absent"
    THEN [data |-> None, initialized |-> init, calls |-> <<>>]
    ELSE IF emu.getState = "throws"
    THEN [data |-> None, initialized |-> init, calls |-> <<Call("getState", <<>>)>>]
    ELSE LET stateData == extractSavePayload(GetStateResult(emu))
         IN  [data |-> IF stateData = None \/ Len(stateData[1]) = 0 THEN None ELSE stateData,
              initialized |-> TRUE, calls |-> <<Call("getState", <<>>)>>]

(***************************************************************************)
(* Init: the state when startRomPlayer has returned the instance, with     *)
(* persistence on (setupPersistentSave, lines 663-1108).                   *)
(***************************************************************************)
BaseCtx(e) ==
    [pendingState |-> None, retryAttempt |-> 0, startupLoadAttempted |-> FALSE,
     emulator |-> e, initialized |-> FALSE, listeners |-> 0,
     timers |-> <<>>, activeTimeouts |-> {}, activeIntervals |-> {},
     loads |-> <<>>,
     calls |-> <<>>, outcome |-> "none", registered |-> FALSE, ret |-> FALSE, tried |-> 0,
     first |-> NoTime, scheduled |-> 0, atPrevious |-> <<>>]

\* lines 1089-1108: an engine that exists already gets the listener, or the
\* fallback timer
SetupCtx(e) ==
    IF e.status = "none" THEN BaseCtx(e)
    ELSE LET c == setupGameStartListener(BaseCtx(e))
         IN  IF c.registered THEN c
             ELSE scheduleTimeout(c, "existingFallback", HookDelay)

InitInstance(c) ==
    /\ pendingState = c.pendingState
    /\ retryAttempt = c.retryAttempt
    /\ startupLoadAttempted = c.startupLoadAttempted
    /\ emulator = c.emulator
    /\ initialized = c.initialized
    /\ listeners = c.listeners
    /\ timers = c.timers
    /\ activeTimeouts = c.activeTimeouts
    /\ activeIntervals = c.activeIntervals
    /\ loads = c.loads
    /\ persists = <<>>
    /\ lists = <<>>
    /\ destroyPhase = "idle"
    /\ destroyData = None
    /\ destroyIdx = 1
    /\ destroyed = FALSE
    /\ events = 0
    /\ out = Out("init", "none", <<>>, <<>>)
    /\ chain = NoChain
    /\ run = NoRun
    /\ destroys = 0
    /\ manualSaveFailed = FALSE
    /\ retries = 0

\* value.trim() of an id given in the metadata; the ids of the model are the
\* keys, the empty string, a blank and a key with blanks around it
Trim(value) ==
    IF value \in {"", " "} THEN "" ELSE IF value = " rom " THEN "rom" ELSE value

\* [metadata?.persistId, metadata?.id, ...(metadata?.alternateIds ?? [])] with
\* '' in the place of each value whose typeof is not 'string'; a value of the
\* metadata is [isString, text], its text '' where it is undefined or a number
MetadataIds(metadata) ==
    LET given == <<metadata.persistId, metadata.id>> \o metadata.alternateIds
    IN  [i \in DOMAIN given |-> IF given[i].isString THEN given[i].text ELSE ""]

\* a Set that keeps the place of the last occurrence of a key, not the first
RECURSIVE DedupKeysKeepLast(_)
DedupKeysKeepLast(ids) ==
    IF ids = <<>> THEN <<>>
    ELSE LET rest == DedupKeysKeepLast(Tail(ids))
             first == Trim(Head(ids))
         IN  IF first = "" \/ \E i \in DOMAIN rest : rest[i] = first
             THEN rest ELSE <<first>> \o rest

\* Array.from(new Set(ids.map(trim).filter(Boolean))): the ids as given,
\* blanks dropped, each once, in order of first occurrence
RECURSIVE DedupKeys(_)
DedupKeys(ids) ==
    IF ids = <<>> THEN <<>>
    ELSE LET front == DedupKeys(SubSeq(ids, 1, Len(ids) - 1))
             last == Trim(ids[Len(ids)])
         IN  IF last = "" \/ \E i \in DOMAIN front : front[i] = last
             THEN front ELSE Append(front, last)

\* a setup that asks for keys only
PersistenceOnAnyStore(ids, indexedDb) == DedupKeys(ids) # <<>>

\* setupPersistentSave goes past its early return (line 657)
PersistenceOn(ids, indexedDb) == DedupKeys(ids) # <<>> /\ indexedDb

\* the player started over one of the stores, with the host's callbacks
\* (<<ready, game-start>>) and the engine as given
InitWith(stores, previous, engines) ==
    /\ config = [ids |-> persistenceKeys, indexedDb |-> TRUE]
    /\ registry = NoPlayers
    /\ database = NoDatabase
    /\ store \in stores
    /\ now = 1
    /\ \E pr \in previous : previousReady = pr[1] /\ previousOnGameStart = pr[2]
    /\ EJS_ready = "wrapper"
    /\ EJS_onGameStart = "wrapper"
    /\ \E e \in engines : InitInstance(SetupCtx(e))

(***************************************************************************)
(* The event loop: a destroy() whose continuation is a pending microtask   *)
(* ("releaseH": after the call returned to the host; "releaseM": inside    *)
(* the store callback that ended the last write) runs before any timer or  *)
(* store callback, and in "releaseM" before any host code.                 *)
(***************************************************************************)
TaskOk == destroyPhase \in {"idle", "saving"}
HostOk == destroyPhase # "releaseM" /\ events < MaxEvents

\* the retry timers scheduled so far for the PendingState the step leaves:
\* a load that leaves one has set it (line 831)
RetriesAfter(c, op) ==
    IF c.pendingState = None THEN 0
    ELSE IF op = "loadDone" THEN c.scheduled
    ELSE retries + c.scheduled

Step(c, op, ret, info) ==
    /\ SetCtx(c)
    /\ out' = Out(op, ret, c.calls, info)
    /\ retries' = RetriesAfter(c, op)

\* the host, the engine loader or another script acts
HostEvent == events' = events + 1 /\ chain' = NoChain

(***************************************************************************)
(* The engine and the host.                                                *)
(***************************************************************************)
EngineAppear(p) ==
    /\ HostOk /\ emulator.status = "none"
    /\ Step([Ctx EXCEPT !.emulator = p, !.initialized = FALSE, !.listeners = 0],
            "engineAppear", "none", <<>>)
    /\ HostEvent
    /\ UNCHANGED <<moduleVars, storeVars, hookVars, persists, lists, destroyVars, run, destroys, manualSaveFailed>>

ManagerAppear ==
    /\ HostOk /\ emulator.status = "noManager"
    /\ Step([Ctx EXCEPT !.emulator = Engine("ready", emulator.events, "ok", "ok",
                                            "absent", "absent", None),
                        !.initialized = FALSE],
            "managerAppear", "none", <<>>)
    /\ HostEvent
    /\ UNCHANGED <<moduleVars, storeVars, hookVars, persists, lists, destroyVars, run, destroys, manualSaveFailed>>

\* another script (or a later player) assigns or deletes a hook slot
SlotClobber(slot, v) ==
    /\ HostOk
    /\ IF slot = "ready"
       THEN EJS_ready' = v /\ UNCHANGED EJS_onGameStart
       ELSE EJS_onGameStart' = v /\ UNCHANGED EJS_ready
    /\ Step(Ctx, "slotClobber", "none", <<>>)
    /\ HostEvent
    /\ UNCHANGED <<moduleVars, storeVars, previousReady, previousOnGameStart, persists, lists, destroyVars,
                   run, destroys, manualSaveFailed>>

\* a call of the captured callback whose exception leaves the wrapper
InvokePreviousUncaught(c, previous, api, throws) ==
    IF previous # "host" THEN c
    ELSE [c EXCEPT !.calls = Append(@, Call(api, <<>>)),
                   !.atPrevious = <<Len(c.timers), c.listeners>>,
                   !.outcome = IF throws THEN "thrown" ELSE "none"]

\* if (previous) { try { previous() } catch { warn } }: the callback runs
\* with the timers and listeners there are at that moment, and what it throws
\* is caught
InvokePrevious(c, previous, api, throws) ==
    IF previous # "host" THEN c
    ELSE [c EXCEPT !.calls = Append(@, Call(api, <<>>)),
                   !.atPrevious = <<Len(c.timers), c.listeners>>,
                   !.outcome = "none"]

\* what a wrapper step records
WrapperInfo(c, throws) ==
    [threw |-> throws, timersBefore |-> timers, listenersBefore |-> listeners,
     atPrevious |-> c.atPrevious]

\* readyWrapper, called through the slot; the host's callback may throw
FireReady(throws) ==
    /\ HostOk /\ EJS_ready = "wrapper"
    /\ throws => previousReady = "host"
    /\ LET c1 == InvokePrevious(Ctx, previousReady, "previousReady", throws)
           c2 == setupGameStartListener(c1)
           c3 == IF c2.registered THEN scheduleTimeout(c2, "readyFallback", HookDelay)
                 ELSE scheduleInterval(c2, "poll", PollDelay)
       IN  \E c \in {IF c1.outcome = "thrown" THEN c1 ELSE c3} :
               Step(c, "ready", "none", WrapperInfo(c, throws))
    /\ HostEvent
    /\ UNCHANGED <<moduleVars, storeVars, hookVars, persists, lists, destroyVars, run, destroys, manualSaveFailed>>

\* onGameStartWrapper, called through the slot; the host's callback may throw
FireOnGameStart(throws) ==
    /\ HostOk /\ EJS_onGameStart = "wrapper"
    /\ throws => previousOnGameStart = "host"
    /\ LET c1 == InvokePrevious(Ctx, previousOnGameStart, "previousOnGameStart", throws)
       IN  \E c \in {IF c1.outcome = "thrown" THEN c1
                     ELSE scheduleTimeout(c1, "onGameStart", HookDelay)} :
               Step(c, "onGameStart", "none", WrapperInfo(c, throws))
    /\ HostEvent
    /\ UNCHANGED <<moduleVars, storeVars, hookVars, persists, lists, destroyVars, run, destroys, manualSaveFailed>>

RECURSIVE ScheduleHandlers(_, _)
ScheduleHandlers(c, n) ==
    IF n = 0 THEN c
    ELSE ScheduleHandlers(scheduleTimeout(c, "gameStart", HookDelay), n - 1)

\* the engine emits 'game-start': every registered gameStartHandler runs
FireGameStartEvent ==
    /\ HostOk /\ listeners > 0
    /\ \E c \in {ScheduleHandlers(Ctx, listeners)} : Step(c, "gameStartEvent", "none", <<>>)
    /\ HostEvent
    /\ UNCHANGED <<moduleVars, storeVars, hookVars, persists, lists, destroyVars, run, destroys, manualSaveFailed>>

Suspended == Len(loads) + Len(persists)

\* instance.loadLatestSave() and instance.loadSaveByTimestamp(ts), up to the first await
LoadCall(ts) ==
    /\ HostOk /\ Suspended < MaxAsync
    /\ \E c \in {StartLoad(Ctx, "manual", ts)} : Step(c, "loadCall", "none", <<>>)
    /\ HostEvent
    /\ UNCHANGED <<moduleVars, storeVars, hookVars, persists, lists, destroyVars, run, destroys, manualSaveFailed>>

\* instance.persistSave(createNew), up to the first await
PersistCall(createNew) ==
    /\ HostOk /\ Suspended < MaxAsync
    /\ \E cap \in {Capture(emulator, initialized)} :
           /\ Step([Ctx EXCEPT !.initialized = cap.initialized, !.calls = cap.calls],
                   "persistCall", IF cap.data = None THEN "false" ELSE "pending",
                   [engine |-> emulator, createNew |-> createNew, store |-> store,
                    writing |-> Len(persists)])
           /\ persists' = IF cap.data = None THEN persists
                          ELSE Append(persists, [data |-> cap.data[1], createNew |-> createNew,
                                                 idx |-> 1])
           /\ manualSaveFailed' = (manualSaveFailed \/ cap.data = None)
    /\ HostEvent
    /\ UNCHANGED <<moduleVars, storeVars, hookVars, lists, destroyVars, run, destroys>>

(***************************************************************************)
(* destroy() (lines 1155-1200 over the base destroy of lines 1286-1312).   *)
(***************************************************************************)
\* a destroy() that never finds a run in flight
InProgressUnnoticed == FALSE

\* if (destroyInProgress)
InProgress == destroyPhase # "idle"

\* a persistState that goes to its writes with whatever it captured
AfterCaptureAlwaysWrites(dataOpt) == "saving"

\* if (!stateData || stateData.length === 0) return false (lines 878-881),
\* else the key loop
AfterCapture(dataOpt) == IF dataOpt = None THEN "releaseH" ELSE "saving"

\* the call: the promise in flight is returned, or a new run starts and goes
\* as far as the first await inside persistState('destroy', true)
DestroyCall ==
    /\ HostOk
    /\ IF InProgress
       THEN /\ run' = [run EXCEPT !.calls = @ + 1]
            /\ Step(Ctx, "destroyJoin", "inProgress", <<>>)
            /\ UNCHANGED <<destroyVars>>
       ELSE \E c \in {[clearAllScheduled(Ctx) EXCEPT !.pendingState = None]} :
            \E cap \in {Capture(c.emulator, c.initialized)} :
                /\ Step([c EXCEPT !.initialized = cap.initialized, !.calls = cap.calls],
                        "destroyCall", "inProgress", <<>>)
                /\ destroyData' = cap.data
                /\ destroyIdx' = 1
                /\ destroyPhase' = AfterCapture(cap.data)
                /\ run' = [run EXCEPT !.calls = @ + 1, !.clears = @ + 1, !.captures = @ + 1]
                /\ UNCHANGED destroyed
    /\ HostEvent
    /\ UNCHANGED <<moduleVars, storeVars, hookVars, persists, lists, destroys, manualSaveFailed>>

WriteInfo(key, data, createNew, auto, t) ==
    [key |-> key, data |-> data, createNew |-> createNew, isAutoSave |-> auto, at |-> t,
     before |-> store[key], readable |-> readPersistedSaves(store[key], t, TRUE)]

\* a key loop that ends after its first write
AfterFirstKey(idx) == "releaseM"

\* the key loop of persistState('destroy'): on to the next key, or done
AfterKey(idx) == IF idx = NumKeys THEN "releaseM" ELSE "saving"

\* one writePersistedSave(key, stateData, true, true) of persistState('destroy')
DestroyWrite(t, ok) ==
    /\ destroyPhase = "saving"
    /\ ok => WriteSettles(store[persistenceKeys[destroyIdx]], destroyData, TRUE)
    /\ LET key == persistenceKeys[destroyIdx]
       IN  /\ store' = writePersistedSave(store, key, destroyData, TRUE, TRUE, t, ok)
           /\ now' = IF ok THEN t ELSE now
           /\ out' = Out("destroyWrite", IF ok THEN "ok" ELSE "error", <<>>,
                         WriteInfo(key, destroyData, TRUE, TRUE, t))
    /\ destroyIdx' = destroyIdx + 1
    /\ destroyPhase' = AfterKey(destroyIdx)
    /\ run' = [run EXCEPT !.writes = @ + 1]
    /\ chain' = NoChain
    /\ UNCHANGED <<moduleVars, engineVars, hookVars, ctrlVars, timerVars, asyncVars, destroyData,
                   destroyed, events, destroys, manualSaveFailed, retries>>

\* a restore that does not look at what the slot holds
RestoredUnchecked(slot, previous) == previous

\* the slot after destroy's "restore previous callbacks"
Restored(slot, previous) == IF slot = "wrapper" THEN previous ELSE slot

\* clearEmulatorConfig: 'exit', destroy(), and the globals nulled
clearEmulatorConfig(c) ==
    [c EXCEPT !.calls = @ \o (IF c.emulator.status = "none" THEN <<>>
                              ELSE <<Call("exit", <<>>), Call("destroy", <<>>)>>),
              !.emulator = NoEmulator, !.listeners = 0, !.initialized = FALSE]

\* after persistState: the hooks restored, the base destroy, the promise settled
DestroyRelease ==
    /\ destroyPhase \in {"releaseH", "releaseM"}
    /\ EJS_ready' = Restored(EJS_ready, previousReady)
    /\ EJS_onGameStart' = Restored(EJS_onGameStart, previousOnGameStart)
    /\ \E c \in {IF destroyed THEN Ctx ELSE clearEmulatorConfig(Ctx)} :
        Step(c, "destroyResolved", "void",
            [readyBefore |-> EJS_ready, onGameStartBefore |-> EJS_onGameStart,
             captured |-> destroyData, run |-> run, nth |-> destroys + 1,
             tornDown |-> ~destroyed])
    /\ destroyed' = TRUE
    /\ destroyPhase' = "idle"
    /\ destroyData' = None
    /\ destroyIdx' = 1
    /\ run' = NoRun
    /\ destroys' = destroys + 1
    /\ chain' = NoChain
    /\ UNCHANGED <<moduleVars, storeVars, previousReady, previousOnGameStart, persists, lists, events,
                   manualSaveFailed>>

(***************************************************************************)
(* Timers.  A timer scheduled later with a delay at least as long fires    *)
(* later.                                                                  *)
(***************************************************************************)
CanFire(i) == \A j \in 1..(i - 1) : timers[j].delay > timers[i].delay

RemoveAt(seq, i) == SubSeq(seq, 1, i - 1) \o SubSeq(seq, i + 1, Len(seq))

\* scheduleTimeout's wrapper: the handle leaves the registry, then the callback runs
Fired(i) ==
    [Ctx EXCEPT !.timers = RemoveAt(@, i), !.activeTimeouts = @ \ {timers[i].id}]

\* a callback that leaves the retry counter as it is after a restore
RetryCallbackWithoutReset(c) ==
    IF c.pendingState = None THEN [c EXCEPT !.outcome = "aborted"]
    ELSE LET a == Apply(c)
         IN  IF a.outcome = "queued" THEN retryApplyPendingState(a) ELSE a

\* a callback that tries once and leaves a state still queued where it is
RetryCallbackGivesUp(c) ==
    IF c.pendingState = None THEN [c EXCEPT !.outcome = "aborted"]
    ELSE LET a == Apply(c)
         IN  IF a.outcome = "queued" THEN a ELSE [a EXCEPT !.retryAttempt = 0]

\* the callback retryApplyPendingState schedules (lines 925-943)
RetryCallback(c) ==
    IF c.pendingState = None THEN [c EXCEPT !.outcome = "aborted"]
    ELSE LET a == Apply(c)
         IN  IF a.outcome = "queued" THEN retryApplyPendingState(a)
             ELSE [a EXCEPT !.retryAttempt = 0]

RetryFire(i) ==
    /\ TaskOk /\ i \in DOMAIN timers /\ CanFire(i) /\ timers[i].kind = "retry"
    /\ \E c \in {RetryCallback(Fired(i))} :
           Step(c, "retryFire", c.outcome,
                [pendingBefore |-> pendingState, attempt |-> retryAttempt,
                 engine |-> emulator, timersBefore |-> timers, fired |-> i])
    /\ chain' = IF chain.clean
                THEN [chain EXCEPT !.fired = @ + 1, !.waited = @ + timers[i].delay]
                ELSE chain
    /\ UNCHANGED <<moduleVars, storeVars, hookVars, persists, lists, destroyVars, events, run, destroys,
                   manualSaveFailed>>

\* the 100 ms callbacks of the hooks and fallbacks
SignalFire(i) ==
    /\ TaskOk /\ i \in DOMAIN timers /\ CanFire(i)
    /\ timers[i].kind \in {"onGameStart", "gameStart", "readyFallback", "existingFallback"}
    /\ \E c \in {SignalApply(Fired(i), timers[i].kind)} :
           /\ Len(c.loads) + Len(persists) <= MaxAsync
           /\ Step(c, "signalFire", c.outcome,
                   [pendingBefore |-> pendingState, kind |-> timers[i].kind])
    /\ chain' = NoChain
    /\ UNCHANGED <<moduleVars, storeVars, hookVars, persists, lists, destroyVars, events, run, destroys,
                   manualSaveFailed>>

\* clearInterval(pollInterval) with activeIntervals.delete(pollInterval)
StopPoll(c, i) ==
    [c EXCEPT !.timers = RemoveAt(@, i), !.activeIntervals = @ \ {c.timers[i].id}]

\* a tick that goes on polling after it has seen the gameManager
PollCallbackKeepsPolling(c, i) ==
    LET pollCount == c.timers[i].count + 1
        counted == [c EXCEPT !.timers = Append(RemoveAt(@, i),
                                               [c.timers[i] EXCEPT !.count = pollCount])]
    IN  IF pollCount >= maxPolls THEN [StopPoll(c, i) EXCEPT !.outcome = "maxPolls"]
        ELSE IF c.emulator.status = "ready"
        THEN SignalApply(setupGameStartListener(counted), "poll-success")
        ELSE [counted EXCEPT !.outcome = "polling"]

\* one tick of the polling fallback (lines 1037-1067)
PollCallback(c, i) ==
    LET pollCount == c.timers[i].count + 1
    IN  IF pollCount >= maxPolls THEN [StopPoll(c, i) EXCEPT !.outcome = "maxPolls"]
        ELSE IF c.emulator.status = "ready"
        THEN SignalApply(setupGameStartListener(StopPoll(c, i)), "poll-success")
        ELSE [c EXCEPT !.timers = Append(RemoveAt(@, i), [c.timers[i] EXCEPT !.count = pollCount]),
                       !.outcome = "polling"]

PollTick(i) ==
    /\ TaskOk /\ i \in DOMAIN timers /\ CanFire(i) /\ timers[i].kind = "poll"
    /\ \E c \in {PollCallback(Ctx, i)} :
           /\ Len(c.loads) + Len(persists) <= MaxAsync
           /\ Step(c, "pollTick", c.outcome,
                   [pendingBefore |-> pendingState, count |-> timers[i].count + 1])
    /\ chain' = NoChain
    /\ UNCHANGED <<moduleVars, storeVars, hookVars, persists, lists, destroyVars, events, run, destroys,
                   manualSaveFailed>>

(***************************************************************************)
(* loadPersistedState (lines 788-853) and persistState (lines 855-894)     *)
(* after their awaits.                                                     *)
(***************************************************************************)
Max(a, b) == IF a >= b THEN a ELSE b

RECURSIVE NewestOf(_)
NewestOf(saves) ==
    IF saves = <<>> THEN NoTime ELSE Max(Head(saves).updatedAt, NewestOf(Tail(saves)))

\* the values Date.now() may return to a read of this record
ReadTimes(record) ==
    IF record.kind \in {"legacy", "buffer"} /\ record.updatedAt = NoTime
    THEN now..MaxClock ELSE {now}

\* readPersistedSaves(key) resolves for the load at position i; after the
\* last key the candidates are sorted and applied
LoadRead(i, t, ok) ==
    /\ TaskOk /\ i \in DOMAIN loads
    /\ ok => ReadSettles(store[persistenceKeys[loads[i].idx]])
    /\ \E l \in {loads[i]} :
       \E key \in {persistenceKeys[l.idx]} :
       \E saves \in {readPersistedSaves(store[key], t, ok)} :
       \E l2 \in {[l EXCEPT !.idx = @ + 1,
                            !.cands = @ \o CandidatesOf(key, saves, l.ts),
                            !.newest = Max(@, NewestOf(saves)),
                            !.seen = @ \o saves]} :
           /\ t \in ReadTimes(store[key])
           /\ now' = t
           /\ IF l.idx < NumKeys
              THEN /\ Step([Ctx EXCEPT !.loads[i] = l2], "loadRead", "none", <<>>)
                   /\ chain' = NoChain
              ELSE \E c \in {FinishLoad([Ctx EXCEPT !.loads = RemoveAt(@, i)], l2.cands)} :
                       /\ Step(c, "loadDone", IF c.ret THEN "true" ELSE "false",
                               [reason |-> l.reason, ts |-> l.ts, outcome |-> c.outcome,
                                cands |-> SortDesc(l2.cands), newest |-> l2.newest,
                                tried |-> c.tried, timersBefore |-> timers,
                                pendingBefore |-> pendingState, first |-> c.first,
                                attempt |-> retryAttempt,
                                seen |-> l2.seen, engine |-> emulator])
                       /\ chain' = IF c.outcome = "queued"
                                   THEN [clean |-> timers = <<>> /\ Len(loads) = 1
                                                     /\ persists = <<>> /\ destroyPhase = "idle",
                                         fired |-> 0, waited |-> 0]
                                   ELSE NoChain
    /\ UNCHANGED <<moduleVars, store, hookVars, persists, lists, destroyVars, events, run, destroys,
                   manualSaveFailed>>

\* a key loop that a failed write ends
NextKeyUnlessFailed(idx, ok) == IF ok THEN idx + 1 ELSE NumKeys + 1

\* for (const key of persistenceKeys) { await writePersistedSave(...) }: the
\* write has settled, with or without an error logged, and the loop goes on
NextKey(idx, ok) == idx + 1

\* one writePersistedSave(key, stateData, createNew, false) of a manual persistState
PersistWrite(i, t, ok) ==
    /\ TaskOk /\ i \in DOMAIN persists
    /\ ok => WriteSettles(store[persistenceKeys[persists[i].idx]], Some(persists[i].data),
                          persists[i].createNew)
    /\ LET p == persists[i]
           key == persistenceKeys[p.idx]
       IN  /\ store' = writePersistedSave(store, key, Some(p.data), p.createNew, FALSE, t, ok)
           /\ now' = IF ok THEN t ELSE now
           /\ out' = Out("persistWrite", IF ok THEN "ok" ELSE "error", <<>>,
                         WriteInfo(key, Some(p.data), p.createNew, FALSE, t)
                             @@ [idx |-> p.idx, call |-> p, writing |-> Len(persists),
                                 returns |-> IF NextKey(p.idx, ok) <= NumKeys
                                             THEN "pending" ELSE "true"])
           /\ persists' = IF NextKey(p.idx, ok) <= NumKeys
                          THEN [persists EXCEPT ![i].idx = NextKey(p.idx, ok)]
                          ELSE RemoveAt(persists, i)
    /\ chain' = NoChain
    /\ UNCHANGED <<moduleVars, engineVars, hookVars, ctrlVars, timerVars, loads, lists, destroyVars, events,
                   run, destroys, manualSaveFailed, retries>>

(***************************************************************************)
(* The restoration controller: the engine's lifecycle, the hooks, manual   *)
(* loads and the timers, over a store that is only read.                   *)
(***************************************************************************)
\* the timestamps the host passes to loadSaveByTimestamp: one some save
\* carries and one no save carries
TsInputs == {0, MaxClock}

Next ==
    \/ \E p \in EngineProfiles : EngineAppear(p)
    \/ ManagerAppear
    \/ \E throws \in BOOLEAN : FireOnGameStart(throws)
    \/ FireGameStartEvent
    \/ \E ts \in {NoTime} \cup TsInputs : LoadCall(ts)
    \/ \E i \in DOMAIN timers : RetryFire(i)
    \/ \E i \in DOMAIN timers : SignalFire(i)
    \/ \E i \in DOMAIN loads, t \in now..MaxClock, ok \in BOOLEAN : LoadRead(i, t, ok)

Init ==
    InitWith({LegacyStore, MultiStore, HistoryStore}, {<<"host", "none">>},
             {NoEmulator, Engine("noManager", TRUE, "absent", "absent", "absent", "absent", None)})

Spec == Init /\ [][Next]_vars

(***************************************************************************)
(* Teardown: destroy() against manual saves and loads, the hooks, the      *)
(* slots and a later engine.                                               *)
(***************************************************************************)
PlainEngine == Engine("ready", FALSE, "ok", "ok", "absent", "absent", None)

NextDestroy ==
    \/ DestroyCall
    \/ \E t \in now..MaxClock, ok \in BOOLEAN : DestroyWrite(t, ok)
    \/ DestroyRelease
    \/ \E slot \in {"ready", "onGameStart"} : SlotClobber(slot, "other")
    \/ EngineAppear(PlainEngine)
    \/ \E throws \in BOOLEAN : FireOnGameStart(throws)
    \/ LoadCall(NoTime)
    \/ \E i \in DOMAIN timers : RetryFire(i)
    \/ \E i \in DOMAIN timers : SignalFire(i)
    \/ \E i \in DOMAIN loads : LoadRead(i, now, TRUE)

InitDestroy ==
    InitWith({LegacyStore, MultiStore},
             {<<"host", "none">>, <<"none", "host">>},
             {NoEmulator, PlainEngine})

SpecDestroy == InitDestroy /\ [][NextDestroy]_vars

(***************************************************************************)
(* The lifecycle signals: the ready and game-start hooks, the engine's     *)
(* 'game-start' event and the polling fallback, which give the startup     *)
(* load its moment.                                                        *)
(***************************************************************************)
NextSignals ==
    \/ EngineAppear(PlainEngine)
    \/ EngineAppear(Engine("noManager", TRUE, "absent", "absent", "absent", "absent", None))
    \/ ManagerAppear
    \/ \E throws \in BOOLEAN : FireReady(throws)
    \/ \E throws \in BOOLEAN : FireOnGameStart(throws)
    \/ FireGameStartEvent
    \/ \E i \in DOMAIN timers : RetryFire(i)
    \/ \E i \in DOMAIN timers : SignalFire(i)
    \/ \E i \in DOMAIN timers : PollTick(i)
    \/ \E i \in DOMAIN loads : LoadRead(i, now, TRUE)

InitSignals == InitWith({MultiStore}, {<<"host", "host">>}, {NoEmulator, PlainEngine})

SpecSignals == InitSignals /\ [][NextSignals]_vars

(***************************************************************************)
(* Saving: manual saves and the autosave of destroy() against the store,   *)
(* with engines whose getState works, throws or returns nothing.           *)
(***************************************************************************)
SaveEngines ==
    { PlainEngine,
      Engine("ready", FALSE, "throws", "throws", "ok", "absent", None),
      Engine("ready", FALSE, "empty", "absent", "absent", "ok", Some(SaveA)),
      Engine("ready", FALSE, "nestedState", "ok", "absent", "absent", None),
      Engine("ready", FALSE, "nestedSave", "ok", "absent", "absent", None),
      Engine("ready", FALSE, "other", "ok", "absent", "absent", None),
      Engine("noManager", FALSE, "absent", "absent", "absent", "absent", None) }

NextSave ==
    \/ DestroyCall
    \/ \E t \in now..MaxClock, ok \in BOOLEAN : DestroyWrite(t, ok)
    \/ DestroyRelease
    \/ \E createNew \in BOOLEAN : PersistCall(createNew)
    \/ \E i \in DOMAIN persists, t \in now..MaxClock, ok \in BOOLEAN : PersistWrite(i, t, ok)
    \/ \E p \in SaveEngines : EngineAppear(p)

InitSave ==
    InitWith({LegacyStore, MultiStore, MalformedStore}, {<<"host", "none">>},
             {NoEmulator, PlainEngine})

SpecSave == InitSave /\ [][NextSave]_vars

(***************************************************************************)
(* The save records alone: writePersistedSave and readPersistedSaves over  *)
(* every shape of stored record, at a clock that does not run backwards.   *)
(***************************************************************************)
\* what a key may hold when the player starts: nothing, a legacy record with
\* or without a timestamp, a bare buffer, or a list this code wrote
StoredRecords ==
    { Absent, Legacy(SaveA, 0), Legacy(SaveB, NoTime), Buffer(SaveA),
      Multi(<<Save0(SaveA)>>), Multi(<<Save1(SaveB), Save0(SaveA)>>) }

InitStore ==
    InitWith({[k \in Keys |-> IF k = "persist" THEN r ELSE Absent] : r \in StoredRecords}
                 \cup {MultiStore},
             {<<"none", "none">>}, {NoEmulator})

\* writePersistedSave(key, data, createNew, isAutoSave) settles
StoreWrite(key, dataOpt, createNew, auto, t, ok) ==
    /\ events < MaxEvents
    /\ ok => WriteSettles(store[key], dataOpt, createNew)
    /\ store' = writePersistedSave(store, key, dataOpt, createNew, auto, t, ok)
    /\ now' = t
    /\ out' = Out("storeWrite", IF ok THEN "ok" ELSE "error", <<>>,
                  WriteInfo(key, dataOpt, createNew, auto, t))
    /\ events' = events + 1
    /\ UNCHANGED <<moduleVars, engineVars, hookVars, ctrlVars, timerVars, asyncVars, destroyVars, histVars>>

\* readPersistedSaves(key) settles
StoreRead(key, t, ok) ==
    /\ events < MaxEvents
    /\ ok => ReadSettles(store[key])
    /\ t \in ReadTimes(store[key])
    /\ now' = t
    /\ out' = Out("storeRead", IF ok THEN "ok" ELSE "error", <<>>,
                  [key |-> key, at |-> t, before |-> store[key],
                   saves |-> readPersistedSaves(store[key], t, ok)])
    /\ events' = events + 1
    /\ UNCHANGED <<moduleVars, store, engineVars, hookVars, ctrlVars, timerVars, asyncVars, destroyVars,
                   histVars>>

\* one element of the list listSaves resolves with (formattedTimestamp is a
\* rendering of timestamp and carries nothing more)
SaveEntry(save) ==
    [timestamp |-> IF save.updatedAt = NoTime THEN 0 ELSE save.updatedAt,
     crc32 |-> save.crc32, isAutoSave |-> save.isAutoSave]

\* a listing that pushes every save it reads
PushAll(allSaves, saves) == allSaves \o [i \in DOMAIN saves |-> SaveEntry(saves[i])]

\* the saves of one key pushed onto allSaves unless their timestamp is there
RECURSIVE PushNew(_, _)
PushNew(allSaves, saves) ==
    IF saves = <<>> THEN allSaves
    ELSE PushNew(IF \E i \in DOMAIN allSaves : allSaves[i].timestamp = Head(saves).updatedAt
                 THEN allSaves
                 ELSE Append(allSaves, SaveEntry(Head(saves))),
                 Tail(saves))

\* allSaves.sort((a, b) => b.timestamp - a.timestamp): stable, descending
RECURSIVE InsertByTimestamp(_, _)
InsertByTimestamp(sorted, e) ==
    IF sorted = <<>> THEN <<e>>
    ELSE IF Head(sorted).timestamp >= e.timestamp
         THEN <<Head(sorted)>> \o InsertByTimestamp(Tail(sorted), e)
         ELSE <<e>> \o sorted

RECURSIVE SortByTimestamp(_)
SortByTimestamp(seq) ==
    IF seq = <<>> THEN <<>>
    ELSE InsertByTimestamp(SortByTimestamp(SubSeq(seq, 1, Len(seq) - 1)), seq[Len(seq)])

\* instance.listSaves() up to its first await
ListCall ==
    /\ events < MaxEvents /\ Len(lists) < MaxAsync
    /\ lists' = Append(lists, [idx |-> 1, allSaves |-> <<>>, seen |-> <<>>])
    /\ out' = Out("listCall", "pending", <<>>, <<>>)
    /\ events' = events + 1
    /\ UNCHANGED <<moduleVars, storeVars, engineVars, hookVars, ctrlVars, timerVars, loads, persists,
                   destroyVars, histVars>>

\* readPersistedSaves(key) resolves for the listSaves call at position i;
\* after the last key the list is sorted and returned
ListRead(i, t, ok) ==
    /\ i \in DOMAIN lists
    /\ ok => ReadSettles(store[persistenceKeys[lists[i].idx]])
    /\ \E l \in {lists[i]} :
       \E key \in {persistenceKeys[l.idx]} :
       \E saves \in {readPersistedSaves(store[key], t, ok)} :
       \E l2 \in {[l EXCEPT !.idx = @ + 1, !.allSaves = PushNew(@, saves),
                            !.seen = @ \o saves]} :
           /\ t \in ReadTimes(store[key])
           /\ now' = t
           /\ lists' = IF l.idx < NumKeys THEN [lists EXCEPT ![i] = l2] ELSE RemoveAt(lists, i)
           /\ out' = Out(IF l.idx < NumKeys THEN "listRead" ELSE "listDone",
                         IF ok THEN "ok" ELSE "error", <<>>,
                         [key |-> key, at |-> t, before |-> store[key], saves |-> saves,
                          seen |-> l2.seen,
                          result |-> IF l.idx < NumKeys THEN <<>>
                                     ELSE SortByTimestamp(l2.allSaves)])
    /\ UNCHANGED <<moduleVars, store, engineVars, hookVars, ctrlVars, timerVars, loads, persists,
                   destroyVars, events, histVars>>

NextStore ==
    \/ \E key \in Keys, dataOpt \in {Some(FreshState), Some(SaveB), None}, createNew \in BOOLEAN,
          auto \in BOOLEAN, t \in now..MaxClock, ok \in BOOLEAN :
            StoreWrite(key, dataOpt, createNew, auto, t, ok)
    \/ \E key \in Keys, t \in now..MaxClock, ok \in BOOLEAN : StoreRead(key, t, ok)
    \/ ListCall
    \/ \E i \in DOMAIN lists, t \in now..MaxClock, ok \in BOOLEAN : ListRead(i, t, ok)

SpecStore == InitStore /\ [][NextStore]_vars

\* the writes alone, under a clock that may have been set back between them
SpecClock ==
    InitStore /\ [][\E key \in Keys, createNew \in BOOLEAN, t \in 0..MaxClock :
                        StoreWrite(key, Some(FreshState), createNew, FALSE, t, TRUE)]_vars

(***************************************************************************)
(* The player whatever it was started with: no ids, blank ids, ids that    *)
(* repeat, indexedDB present or not.  Without keys or without indexedDB    *)
(* setupPersistentSave returns early and the instance keeps the methods    *)
(* assigned at lines 637-655 and the base destroy; the configurations with *)
(* persistence on start as in the other specifications, whose actions are  *)
(* theirs.                                                                 *)
(***************************************************************************)
IdInputs == { <<>>, <<"", " ">>, <<"persist", "rom", "persist">> }
HostSlots == { <<"host", "none">>, <<"none", "host">> }

InitOff ==
    /\ \E ids \in IdInputs, indexedDb \in BOOLEAN :
           config = [ids |-> ids, indexedDb |-> indexedDb]
    /\ registry = NoPlayers
    /\ database = NoDatabase
    /\ store \in {LegacyStore, MultiStore}
    /\ now = 1
    /\ \E host \in HostSlots, e \in {NoEmulator, PlainEngine} :
           IF PersistenceOn(config.ids, config.indexedDb)
           THEN /\ previousReady = host[1] /\ previousOnGameStart = host[2]
                /\ EJS_ready = "wrapper" /\ EJS_onGameStart = "wrapper"
                /\ InitInstance(SetupCtx(e))
           ELSE /\ previousReady = "none" /\ previousOnGameStart = "none"
                /\ EJS_ready = host[1] /\ EJS_onGameStart = host[2]
                /\ InitInstance(BaseCtx(e))

\* persistSave, loadLatestSave, loadSaveByTimestamp or listSaves of an
\* instance whose setup returned early
OffCall(api) ==
    /\ HostOk /\ ~PersistenceOn(config.ids, config.indexedDb)
    /\ Step(Ctx, api, IF api = "listSaves" THEN "list" ELSE "false", [result |-> <<>>])
    /\ HostEvent
    /\ UNCHANGED <<moduleVars, storeVars, hookVars, persists, lists, destroyVars, run, destroys,
                   manualSaveFailed>>

\* the destroy the instance was created with
BaseDestroy ==
    /\ HostOk /\ ~PersistenceOn(config.ids, config.indexedDb)
    /\ \E c \in {IF destroyed THEN Ctx ELSE clearEmulatorConfig(Ctx)} :
           Step(c, "destroy", "void", [tornDown |-> ~destroyed])
    /\ destroyed' = TRUE
    /\ HostEvent
    /\ UNCHANGED <<moduleVars, storeVars, hookVars, persists, lists, destroyPhase, destroyData,
                   destroyIdx, run, destroys, manualSaveFailed>>

NextOff ==
    \/ \E api \in {"persistSave", "loadLatestSave", "loadSaveByTimestamp", "listSaves"} :
           OffCall(api)
    \/ BaseDestroy
    \/ EngineAppear(PlainEngine)
    \/ \E slot \in {"ready", "onGameStart"} : SlotClobber(slot, "other")

SpecOff == InitOff /\ [][NextOff]_vars

(***************************************************************************)
(* openSaveDatabase alone: the calls writePersistedSave and                *)
(* readPersistedSaves make, the events of the open request, and a host that *)
(* takes indexedDB away and puts it back.                                  *)
(***************************************************************************)
MaxOpenSteps == 5

OpenQuiet ==
    UNCHANGED <<config, registry, storeVars, engineVars, hookVars, ctrlVars, timerVars,
                asyncVars, destroyVars, histVars>>

\* const db = await openSaveDatabase() up to the await
OpenCall(throws) ==
    /\ events < MaxOpenSteps
    /\ \E c \in {openSaveDatabase(database, throws)} :
           /\ database' = c.database
           /\ out' = Out("openSaveDatabase", c.promise, <<>>,
                         [indexedDB |-> database.indexedDB,
                          remembered |-> database.saveDatabasePromise,
                          opens |-> Len(c.database.requests) - Len(database.requests)])
    /\ events' = events + 1
    /\ OpenQuiet

\* request.onsuccess, request.onerror or request.onblocked of the r-th open:
\* resolve() of a promise already resolved does nothing
RequestEvent(r, kind) ==
    /\ events < MaxOpenSteps
    /\ r \in DOMAIN database.requests
    /\ database.requests[r] = "pending" \/ (database.requests[r] = "blocked" /\ kind # "blocked")
    /\ database' = [database EXCEPT
           !.requests[r] = IF kind = "blocked" THEN "blocked" ELSE "done",
           !.promises[r] = IF @ # "pending" THEN @
                           ELSE IF kind = "success" THEN "db" ELSE "null"]
    /\ out' = Out("request", kind, <<>>, [request |-> r])
    /\ events' = events + 1
    /\ OpenQuiet

\* the host deletes or restores globalThis.indexedDB
IndexedDbToggle ==
    /\ events < MaxOpenSteps
    /\ database' = [database EXCEPT !.indexedDB = ~@]
    /\ out' = Out("indexedDB", IF database.indexedDB THEN "deleted" ELSE "restored", <<>>, <<>>)
    /\ events' = events + 1
    /\ OpenQuiet

SpecOpen ==
    InitStore /\ [][\/ \E throws \in BOOLEAN : OpenCall(throws)
                    \/ \E r \in 1..MaxOpenSteps, kind \in {"success", "error", "blocked"} :
                           RequestEvent(r, kind)
                    \/ IndexedDbToggle]_vars

(***************************************************************************)
(* The identity keys of setupPersistentSave over the metadata a caller may *)
(* pass: each id a key, a key with blanks around it, the empty string, a   *)
(* blank or no string at all.  The instance is the one the setup leaves:   *)
(* with hooks where the key list is not empty and the store is there, the  *)
(* instance as created otherwise.                                          *)
(***************************************************************************)
MaxAlternates == 2

InitKeys ==
    /\ \E values \in {{[isString |-> FALSE, text |-> ""]} \cup
                          {[isString |-> TRUE, text |-> t] :
                               t \in {"", " ", "persist", "rom", " rom "}}} :
           \E persistId \in values, id \in values, indexedDb \in BOOLEAN,
              alternateIds \in UNION {[1..n -> values] : n \in 0..MaxAlternates} :
               \E metadata \in {[persistId |-> persistId, id |-> id,
                                  alternateIds |-> alternateIds]} :
                   config = [ids |-> MetadataIds(metadata), indexedDb |-> indexedDb,
                             metadata |-> metadata]
    /\ registry = NoPlayers
    /\ database = NoDatabase
    /\ store = MultiStore
    /\ now = 1
    /\ IF PersistenceOn(config.ids, config.indexedDb)
       THEN /\ previousReady = "host" /\ previousOnGameStart = "none"
            /\ EJS_ready = "wrapper" /\ EJS_onGameStart = "wrapper"
            /\ InitInstance(SetupCtx(NoEmulator))
       ELSE /\ previousReady = "none" /\ previousOnGameStart = "none"
            /\ EJS_ready = "host" /\ EJS_onGameStart = "none"
            /\ InitInstance(BaseCtx(NoEmulator))

SpecKeys == InitKeys /\ [][NextOff]_vars

(***************************************************************************)
(* applyPendingState alone, over every engine the host may have put into   *)
(* the global slot and every PendingState a load may have left.            *)
(***************************************************************************)
ApiStates == {"absent", "ok", "throws"}

EngineInputs ==
    {NoEmulator, Engine("noManager", FALSE, "absent", "absent", "absent", "absent", None)}
        \cup { Engine("ready", FALSE, g, l, s, f, file) :
                  g \in ApiStates, l \in ApiStates, s \in ApiStates,
                  f \in {"absent", "ok", "writeFails"}, file \in {None, Some(SaveA)} }

PendingInputs == {None, Some(SaveA), Some(SaveB)}

InitApply ==
    /\ config = [ids |-> persistenceKeys, indexedDb |-> TRUE]
    /\ registry = NoPlayers
    /\ database = NoDatabase
    /\ store = MultiStore
    /\ now = 1
    /\ previousReady = "none" /\ previousOnGameStart = "none"
    /\ EJS_ready = "wrapper" /\ EJS_onGameStart = "wrapper"
    /\ \E e \in EngineInputs, p \in PendingInputs, i \in BOOLEAN :
           InitInstance([BaseCtx(e) EXCEPT !.pendingState = p, !.initialized = i])

\* applyPendingState(reason) is called
ApplyCall ==
    /\ \E c \in {Apply(Ctx)} :
           Step(c, "apply", c.outcome,
                [pendingBefore |-> pendingState, engine |-> emulator,
                 initializedBefore |-> initialized])
    /\ chain' = NoChain
    /\ UNCHANGED <<moduleVars, storeVars, hookVars, persists, lists, destroyVars, events, run,
                   destroys, manualSaveFailed>>

SpecApply == InitApply /\ [][ApplyCall]_vars

(***************************************************************************)
(* startRomPlayer (lines 1262-1351) over the instances started so far.  An  *)
(* instance is "alive", "destroying" (its destroy() is in flight) or       *)
(* "destroyed"; a promise is named by the instance whose destroy() it      *)
(* follows.  awaited holds, in call order, the promises the suspended      *)
(* startRomPlayer calls wait for; slot is the instance whose wrappers the  *)
(* hook slots hold.                                                        *)
(***************************************************************************)
cleanupActivePlayer(r) ==
    IF r.activePlayer = 0
    THEN [registry |-> r, promise |-> r.activePlayerDestroyPromise]
    ELSE [registry |-> [r EXCEPT !.activePlayer = 0,
                                 !.instances[r.activePlayer].status = "destroying",
                                 !.activePlayerDestroyPromise = r.activePlayer],
          promise |-> r.activePlayer]

Settled(p) == IF p = 0 THEN TRUE ELSE registry.instances[p].status = "destroyed"

\* the host runs: in the task that made the last call, or with no
\* continuation ready
HostTurn == registry.inTask \/ \A k \in DOMAIN registry.awaited : ~Settled(registry.awaited[k])

StartQuiet ==
    UNCHANGED <<config, database, storeVars, engineVars, hookVars, ctrlVars, timerVars, asyncVars,
                destroyVars, events, histVars>>

\* startRomPlayer(options) up to its await
StartCall ==
    /\ HostTurn
    /\ Len(registry.instances) + Len(registry.awaited) < MaxStarts
    /\ \E c \in {cleanupActivePlayer(registry)} :
           /\ registry' = [c.registry EXCEPT !.awaited = Append(@, c.promise), !.inTask = TRUE]
           /\ out' = Out("startCall", "pending", <<>>, [awaits |-> c.promise])
    /\ StartQuiet

\* the call at position k goes on after its await: the instance is made,
\* setupPersistentSave captures the slots and installs the wrappers, and
\* the instance becomes the active player
StartResume(k) ==
    /\ k \in DOMAIN registry.awaited /\ Settled(registry.awaited[k])
    /\ \A j \in 1..(k - 1) : ~Settled(registry.awaited[j])
    /\ \E id \in {Len(registry.instances) + 1} :
           /\ registry' = [registry EXCEPT
                  !.awaited = RemoveAt(@, k),
                  !.instances = Append(@, [status |-> "alive", previous |-> registry.slot]),
                  !.slot = id, !.activePlayer = id, !.inTask = FALSE]
           /\ out' = Out("startResolved", "instance", <<>>,
                         [id |-> id, before |-> registry.instances, slotBefore |-> registry.slot])
    /\ StartQuiet

\* the host calls destroy() of an instance it holds
InstanceDestroy(i) ==
    /\ HostTurn
    /\ i \in DOMAIN registry.instances /\ registry.instances[i].status = "alive"
    /\ registry' = [registry EXCEPT !.instances[i].status = "destroying", !.inTask = TRUE]
    /\ out' = Out("instanceDestroy", "inProgress", <<>>, [id |-> i])
    /\ StartQuiet

\* script.onerror of an instance's loader script (lines 1337-1343)
ScriptError(i) ==
    /\ HostTurn
    /\ i \in DOMAIN registry.instances /\ registry.instances[i].status = "alive"
    /\ registry' = [registry EXCEPT !.instances[i].status = "destroying",
                                    !.activePlayer = IF @ = i THEN 0 ELSE @,
                                    !.inTask = TRUE]
    /\ out' = Out("scriptError", "none", <<>>, [id |-> i])
    /\ StartQuiet

\* the destroy() of an instance completes: the slots restored if they hold
\* its wrappers, the base destroy, the promise of cleanupActivePlayer settled
InstanceDestroyed(i) ==
    /\ i \in DOMAIN registry.instances /\ registry.instances[i].status = "destroying"
    /\ registry' = [registry EXCEPT
           !.instances[i].status = "destroyed",
           !.slot = IF @ = i THEN registry.instances[i].previous ELSE @,
           !.activePlayer = IF @ = i THEN 0 ELSE @,
           !.activePlayerDestroyPromise = IF @ = i THEN 0 ELSE @,
           !.inTask = FALSE]
    /\ out' = Out("instanceDestroyed", "void", <<>>, [id |-> i])
    /\ StartQuiet

NextStart ==
    \/ StartCall
    \/ \E k \in DOMAIN registry.awaited : StartResume(k)
    \/ \E i \in DOMAIN registry.instances : InstanceDestroy(i)
    \/ \E i \in DOMAIN registry.instances : ScriptError(i)
    \/ \E i \in DOMAIN registry.instances : InstanceDestroyed(i)

\* no player started yet, the host's callbacks in the slots
SpecStart == InitWith({MultiStore}, {<<"host", "host">>}, {NoEmulator}) /\ [][NextStart]_vars

(***************************************************************************)
(* Properties of the save records (SpecStore).                             *)
(***************************************************************************)
\* the write that has just settled, and the SaveState it built
Wrote(createNew) ==
    /\ out.op = "storeWrite" /\ out.ret = "ok"
    /\ out.info.data # None /\ out.info.createNew = createNew
WrittenSave == NewSave(out.info.data[1], out.info.at, out.info.isAutoSave)

LegacyReadAsOneSave ==
    (/\ out.op \in {"storeRead", "listRead", "listDone"} /\ out.ret = "ok"
     /\ out.info.before.kind \in {"legacy", "buffer"}) =>
        /\ Len(out.info.saves) = 1
        /\ out.info.saves[1].data = out.info.before.data
        /\ out.info.saves[1].crc32 = computeCrc32(out.info.before.data)
        /\ out.info.saves[1].isAutoSave = FALSE
        /\ out.info.saves[1].updatedAt =
               (IF out.info.before.updatedAt = NoTime THEN out.info.at
                ELSE out.info.before.updatedAt)
        /\ store[out.info.key] = out.info.before

BareBufferRead ==
    /\ out.op = "storeRead" /\ out.ret = "ok" /\ out.info.before = Buffer(SaveA)
    /\ Len(out.info.saves) = 1 /\ out.info.saves[1].data = SaveA
    /\ store[out.info.key] = Buffer(SaveA)

(***************************************************************************)
(* Properties of the restoration controller (Spec).                        *)
(***************************************************************************)
\* the calls of one engine API the last step made
CallsOf(api) == SelectSeq(out.calls, LAMBDA c : c.api = api)

RetryTimers == SelectSeq(timers, LAMBDA t : t.kind = "retry")

\* the engine a retry found has a gameManager whose loadState works
FoundWorkingEngine == out.info.engine.status = "ready" /\ out.info.engine.loadState = "ok"

\* C1 as stated: a retry that fires once an engine with a working load API is
\* present calls that API exactly once with the queued bytes and leaves
\* PendingState null.
EveryRetryRestores ==
    (out.op = "retryFire" /\ FoundWorkingEngine) =>
        /\ Len(CallsOf("loadState")) = 1
        /\ pendingState = None

\* C1, as the code has it: a load without timestamp that is queued returns
\* false, keeps the bytes of the newest stored save as PendingState and adds
\* one retry timer; a retry that finds PendingState still set and an engine
\* with a working load API calls loadState exactly once, with those bytes,
\* nulls PendingState, resets the retry counter and schedules nothing; a retry
\* that finds PendingState null calls nothing and changes nothing.
QueuedLoadIsRestoredByRetry ==
    /\ (out.op = "loadDone" /\ out.info.outcome = "queued") =>
            /\ out.ret = "false" /\ out.calls = <<>>
            /\ out.info.ts = NoTime =>
                    /\ pendingState = Some(out.info.cands[1].data)
                    /\ out.info.cands[1].updatedAt = out.info.newest
            /\ Len(RetryTimers) = 1 + Len(SelectSeq(out.info.timersBefore,
                                                    LAMBDA t : t.kind = "retry"))
    /\ (out.op = "retryFire" /\ out.info.pendingBefore # None /\ FoundWorkingEngine) =>
            /\ out.ret = "restored"
            /\ CallsOf("loadState") = <<Call("loadState", out.info.pendingBefore[1])>>
            /\ emulator.state = out.info.pendingBefore[1]
            /\ pendingState = None /\ retryAttempt = 0
            /\ timers = RemoveAt(out.info.timersBefore, out.info.fired)
    /\ (out.op = "retryFire" /\ out.info.pendingBefore = None) =>
            /\ out.ret = "aborted" /\ out.calls = <<>>
            /\ pendingState = None /\ retryAttempt = out.info.attempt
            /\ emulator = out.info.engine
            /\ timers = RemoveAt(out.info.timersBefore, out.info.fired)

\* the engine turned up late: the third retry restores the newest save
LateRetryRestores ==
    /\ out.op = "retryFire" /\ out.ret = "restored" /\ out.info.attempt = 3
    /\ emulator.state = SaveB /\ store = MultiStore
    /\ timers = <<>>

\* C2: from a queued load with nothing else scheduled or in flight, and until
\* the host or the engine acts, one retry timer at a time is outstanding, the
\* k-th scheduled after k - 1 have fired; the maxRetries-th firing that is
\* still queued nulls PendingState and schedules nothing.
RetryCapped ==
    chain.clean =>
        /\ chain.fired <= maxRetries
        /\ pendingState # None =>
                /\ chain.fired < maxRetries
                /\ retryAttempt = chain.fired + 1
                /\ Len(timers) = 1 /\ timers[1].kind = "retry"
        /\ pendingState = None => chain.fired = maxRetries /\ timers = <<>>

RetriesExhausted ==
    /\ chain.clean /\ chain.fired = maxRetries
    /\ out.op = "retryFire" /\ out.ret = "queued"
    /\ pendingState = None /\ timers = <<>>

(***************************************************************************)
(* Properties of destroy() (SpecDestroy, SpecSave).                        *)
(***************************************************************************)
Resolved == out.op = "destroyResolved"

\* C3 as stated: when destroy() resolves, the registries of the instance are
\* empty and none of its timeouts or intervals is still scheduled.
ResolvedWithNothingScheduled ==
    Resolved => timers = <<>> /\ activeTimeouts = {} /\ activeIntervals = {}

\* C4 as stated: while destroy() runs, no load, retry or hook callback of the
\* instance sets PendingState, schedules a timer or calls a restore API.
NoRestorationDuringDestroy ==
    (InProgress /\ out.op \in {"loadDone", "retryFire", "signalFire", "onGameStart"}) =>
        /\ pendingState = None
        /\ timers = <<>>
        /\ CallsOf("loadState") = <<>> /\ CallsOf("setState") = <<>>
        /\ CallsOf("writeFile") = <<>>

SlotsRestoredIfOwned ==
    Resolved =>
        /\ EJS_ready = (IF out.info.readyBefore = "wrapper" THEN previousReady
                        ELSE out.info.readyBefore)
        /\ EJS_onGameStart = (IF out.info.onGameStartBefore = "wrapper" THEN previousOnGameStart
                              ELSE out.info.onGameStartBefore)

ClobberedSlotKept ==
    /\ Resolved /\ out.info.nth = 1
    /\ out.info.readyBefore = "other" /\ EJS_ready = "other" /\ previousReady = "host"
    /\ out.info.onGameStartBefore = "wrapper" /\ EJS_onGameStart = "none"

\* C7 as stated: a destroy() after an earlier one has completed writes no
\* save under the keys of the instance.
OnlyFirstDestroyWrites == out.op = "destroyWrite" => destroys = 0

\* C8: a destroy() called while one is in progress joins it and does nothing
\* itself; the run it joined clears the timers once, captures once, writes
\* each key at most once and tears the engine down if it was the first.
DestroyJoinsRunInFlight ==
    /\ out.op = "destroyJoin" => InProgress /\ out.calls = <<>> /\ run.calls >= 2
    /\ InProgress => run.clears = 1 /\ run.captures = 1 /\ run.writes <= NumKeys
    /\ Resolved =>
            /\ out.info.run.clears = 1 /\ out.info.run.captures = 1
            /\ out.info.run.writes = (IF out.info.captured = None THEN 0 ELSE NumKeys)
            /\ out.info.tornDown = (out.info.nth = 1)

JoinedDestroyResolved ==
    /\ Resolved /\ out.info.run.calls = 2 /\ out.info.run.writes = NumKeys
    /\ out.info.tornDown /\ emulator = NoEmulator
\* the load that has just returned, and what it did
LoadDone(withTs) == out.op = "loadDone" /\ ((out.info.ts # NoTime) = withTs)
AllFailed == out.info.tried >= 1 /\ out.info.outcome = "failed"
Attempts == SubSeq(out.info.cands, 1, out.info.tried)

\* C13 as stated: a load without a timestamp whose every attempt failed has
\* attempted every SaveState it read under every key, the older saves of a
\* key's history included.
FailedLoadTriedEverySave ==
    (LoadDone(FALSE) /\ AllFailed) =>
        \A i \in DOMAIN out.info.seen :
            Len(out.info.seen[i].data) > 0 =>
                \E j \in DOMAIN Attempts :
                    /\ Attempts[j].data = out.info.seen[i].data
                    /\ Attempts[j].updatedAt = out.info.seen[i].updatedAt

\* C14: the first candidate a load without a timestamp attempts carries the
\* greatest updatedAt of all the SaveStates the load read under all the keys.
FirstAttemptIsNewest ==
    (LoadDone(FALSE) /\ out.info.tried >= 1) =>
        /\ out.info.first = out.info.newest
        /\ \A i \in DOMAIN out.info.seen : out.info.seen[i].updatedAt <= out.info.first

NewestUnderSecondKey ==
    /\ LoadDone(FALSE) /\ out.info.tried >= 1
    /\ Len(out.info.cands) = 2
    /\ out.info.first = 1
    /\ out.info.cands[1].key = persistenceKeys[2]
    /\ out.info.cands[2].updatedAt = 0

\* C15 as stated: a load whose every candidate failed returns false with
\* PendingState null and no retry scheduled, and leaves the engine as it
\* was: the save file in its filesystem as present, with the same content.
FailedLoadLeavesEngineAlone ==
    (out.op = "loadDone" /\ AllFailed) =>
        /\ out.ret = "false"
        /\ pendingState = None
        /\ timers = out.info.timersBefore
        /\ emulator.state = out.info.engine.state
        /\ emulator.file = out.info.engine.file

\* C17: a load by timestamp attempts only SaveStates whose updatedAt is that
\* timestamp, found anywhere in a key's history, with the bytes stored there;
\* when it attempts none it returns false and has called no engine API.
TimestampLoadIsExact ==
    LoadDone(TRUE) =>
        /\ \A j \in DOMAIN out.info.cands :
               /\ out.info.cands[j].updatedAt = out.info.ts
               /\ \E i \in DOMAIN out.info.seen :
                      /\ out.info.seen[i].updatedAt = out.info.ts
                      /\ out.info.seen[i].data = out.info.cands[j].data
        /\ out.info.tried <= Len(out.info.cands)
        /\ (\A i \in DOMAIN out.info.seen : out.info.seen[i].updatedAt # out.info.ts) =>
               (out.info.cands = <<>> /\ out.ret = "false" /\ out.calls = <<>>)

OlderSaveLoadedByTimestamp ==
    /\ LoadDone(TRUE) /\ out.ret = "true" /\ out.info.ts = 0
    /\ store = HistoryStore
    /\ CallsOf("loadState") = <<Call("loadState", SaveA)>>

\* the engine yields a payload persistState can capture: it has a gameManager
\* with getState, which returns non-empty bytes, bare or under state or save
Capturable(e) ==
    /\ e.status = "ready" /\ e.getState \in {"ok", "nestedState", "nestedSave"}
    /\ Len(e.state) > 0

\* C16: persistSave(createNew) goes on to return true exactly when the engine
\* is Capturable; it then issues one write per key, in key order, of the
\* extracted bytes with the caller's createNew and isAutoSave = FALSE, and
\* returns true after the last; otherwise it returns false at once, the store
\* is unchanged and no write is pending for it.
PersistSaveWritesWhatItCaptures ==
    /\ out.op = "persistCall" =>
          /\ (out.ret = "pending") = Capturable(out.info.engine)
          /\ (out.ret = "false") = ~Capturable(out.info.engine)
          /\ store = out.info.store
          /\ out.ret = "false" => Len(persists) = out.info.writing
          /\ out.ret = "pending" =>
                /\ Len(persists) = out.info.writing + 1
                /\ persists[Len(persists)] =
                       [data |-> out.info.engine.state, createNew |-> out.info.createNew,
                        idx |-> 1]
    /\ out.op = "persistWrite" =>
          /\ out.info.key = persistenceKeys[out.info.idx]
          /\ out.info.data = Some(out.info.call.data)
          /\ out.info.createNew = out.info.call.createNew
          /\ out.info.isAutoSave = FALSE
          /\ (out.info.returns = "true") = (out.info.idx = NumKeys)
          /\ out.ret = "ok" =>
                \E saves \in {store[out.info.key].saves} :
                \E j \in DOMAIN saves :
                    /\ saves[j].data = out.info.call.data
                    /\ saves[j].updatedAt = out.info.at

NestedPayloadSaved ==
    /\ out.op = "persistWrite" /\ out.ret = "ok" /\ out.info.returns = "true"
    /\ emulator.getState = "nestedSave"
    /\ out.info.createNew
    /\ store[persistenceKeys[NumKeys]].saves[1].data = FreshState

\* C18: the list listSaves resolves with is strictly descending by timestamp
\* (so no timestamp occurs twice), has an entry for the updatedAt of every
\* SaveState the call read under any key, and each entry carries the checksum
\* and isAutoSave of the first SaveState read with that timestamp.
ListSavesDistinctSorted ==
    (out.op = "listDone") =>
        \E result \in {out.info.result}, seen \in {out.info.seen} :
            /\ \A i \in DOMAIN result : \A j \in DOMAIN result :
                   i < j => result[i].timestamp > result[j].timestamp
            /\ \A k \in DOMAIN seen : \E i \in DOMAIN result :
                   result[i].timestamp = seen[k].updatedAt
            /\ \A i \in DOMAIN result : \E k \in DOMAIN seen :
                   /\ seen[k].updatedAt = result[i].timestamp
                   /\ \A m \in 1..(k - 1) : seen[m].updatedAt # result[i].timestamp
                   /\ result[i].crc32 = seen[k].crc32
                   /\ result[i].isAutoSave = seen[k].isAutoSave

SharedTimestampListedOnce ==
    /\ out.op = "listDone"
    /\ Len(out.info.seen) = 4 /\ Len(out.info.result) = 3
    /\ out.info.result[1].isAutoSave /\ ~out.info.result[2].isAutoSave

\* C19: when the ids given leave no key once trimmed and deduplicated, or
\* indexedDB is absent when the player starts, persistSave, loadLatestSave
\* and loadSaveByTimestamp resolve false and listSaves resolves the empty
\* list, neither hook slot holds a wrapper of the instance, no timer or
\* interval is scheduled or registered, and no store read or write is ever
\* in flight.
PersistenceOffIsInert ==
    ((\A i \in DOMAIN config.ids : config.ids[i] \in {"", " "}) \/ ~config.indexedDb) =>
        /\ EJS_ready # "wrapper" /\ EJS_onGameStart # "wrapper"
        /\ timers = <<>> /\ activeTimeouts = {} /\ activeIntervals = {}
        /\ loads = <<>> /\ persists = <<>> /\ lists = <<>> /\ destroyPhase = "idle"
        /\ out.op \in {"persistSave", "loadLatestSave", "loadSaveByTimestamp"} =>
               (out.ret = "false" /\ out.calls = <<>>)
        /\ out.op = "listSaves" => (out.ret = "list" /\ out.info.result = <<>>)
        /\ out.op \notin {"persistCall", "loadCall", "listCall"}

KeysButNoIndexedDb ==
    /\ config.ids = <<"persist", "rom", "persist">> /\ ~config.indexedDb
    /\ out.op = "loadLatestSave" /\ out.ret = "false"
    /\ EJS_ready = "host" /\ emulator.status = "ready"

\* C20 as stated: persistSave, loadLatestSave, loadSaveByTimestamp, listSaves
\* and destroy always settle, whatever the store holds: a call suspended on a
\* store request is settled, or moved on to its next key, by the request's
\* success callback.
EverySuspendedCallSettles ==
    /\ \A i \in DOMAIN loads : ReadSettles(store[persistenceKeys[loads[i].idx]])
    /\ \A i \in DOMAIN lists : ReadSettles(store[persistenceKeys[lists[i].idx]])
    /\ \A i \in DOMAIN persists :
           WriteSettles(store[persistenceKeys[persists[i].idx]], Some(persists[i].data),
                        persists[i].createNew)
    /\ destroyPhase = "saving" =>
           WriteSettles(store[persistenceKeys[destroyIdx]], destroyData, TRUE)

(***************************************************************************)
(* Properties of applyPendingState (SpecApply).                            *)
(***************************************************************************)
\* the apply that has just returned was given bytes
AppliedBytes == out.op = "apply" /\ out.info.pendingBefore # None

\* one of the calls the apply made went through on the engine it was made on
Committed ==
    \/ CallsOf("loadState") # <<>> /\ out.info.engine.loadState = "ok"
    \/ CallsOf("setState") # <<>> /\ out.info.engine.setState = "ok"
    \/ CallsOf("writeFile") # <<>> /\ out.info.engine.fs = "ok"

\* C25: applyPendingState with a non-empty PendingState returns "queued"
\* exactly when there is no engine or the engine has no gameManager, and
\* then PendingState is what it was and no engine API was called; otherwise
\* it returns "restored" if a call committed and "failed" if none did, and
\* PendingState is null.
ApplyOutcomes ==
    AppliedBytes =>
        /\ (out.ret = "queued") = (out.info.engine.status \in {"none", "noManager"})
        /\ out.ret = "queued" => (pendingState = out.info.pendingBefore /\ out.calls = <<>>)
        /\ out.ret # "queued" =>
               /\ pendingState = None
               /\ out.ret = (IF Committed THEN "restored" ELSE "failed")

FailedApplyClearsPending ==
    /\ AppliedBytes /\ out.ret = "failed" /\ pendingState = None
    /\ Len(out.calls) >= 2

\* position of the first call of an API among the calls of the step, 0 if none
FirstCall(api) ==
    IF CallsOf(api) = <<>> THEN 0
    ELSE CHOOSE i \in DOMAIN out.calls :
            out.calls[i].api = api /\ \A j \in 1..(i - 1) : out.calls[j].api # api

\* C26: within one applyPendingState, setState is called only when loadState
\* is absent or threw; the save file is written only when neither loadState
\* nor setState committed; loadSaveFiles and the 'load' event are issued only
\* after a write that succeeded, never when loadState or setState committed;
\* each API is called at most once and in this order.
StrategiesInOrder ==
    out.op = "apply" =>
        /\ CallsOf("setState") # <<>> => out.info.engine.loadState \in {"absent", "throws"}
        /\ CallsOf("writeFile") # <<>> =>
               (out.info.engine.loadState # "ok" /\ out.info.engine.setState # "ok")
        /\ \A api \in {"loadSaveFiles", "callEventLoad"} :
               CallsOf(api) # <<>> =>
                   /\ out.info.engine.fs = "ok"
                   /\ out.info.engine.loadState # "ok" /\ out.info.engine.setState # "ok"
                   /\ FirstCall("writeFile") > 0 /\ FirstCall("writeFile") < FirstCall(api)
        /\ \A api \in {"loadState", "setState", "writeFile", "loadSaveFiles", "callEventLoad"} :
               Len(CallsOf(api)) <= 1
        /\ (CallsOf("loadState") # <<>> /\ CallsOf("setState") # <<>>) =>
               FirstCall("loadState") < FirstCall("setState")
        /\ (CallsOf("setState") # <<>> /\ CallsOf("writeFile") # <<>>) =>
               FirstCall("setState") < FirstCall("writeFile")

FilesystemAfterBothThrew ==
    /\ out.op = "apply" /\ out.ret = "restored"
    /\ out.info.engine.loadState = "throws" /\ out.info.engine.setState = "throws"
    /\ Len(out.calls) >= 5
    /\ out.calls[Len(out.calls)] = Call("callEventLoad", <<>>)
    /\ emulator.file = out.info.pendingBefore

(***************************************************************************)
(* Properties of the candidates loop (Spec).                               *)
(***************************************************************************)
\* the retry timers the last step left scheduled beyond those before it
NewRetryTimers ==
    SelectSeq(timers, LAMBDA t : t.kind = "retry" /\
                 \A k \in DOMAIN out.info.timersBefore : out.info.timersBefore[k].id # t.id)

\* C23: a load whose candidate comes out queued stops there: it has attempted
\* that one candidate and called no engine API, PendingState holds the
\* candidate's bytes, the retry counter was set to 0 before the one retry
\* timer it schedules (the timer carries the first delay and the counter is
\* 1 afterwards), and the load returns false.
QueuedLoadHandsOver ==
    (out.op = "loadDone" /\ out.info.outcome = "queued") =>
        /\ out.info.tried = 1 /\ out.calls = <<>>
        /\ pendingState = Some(out.info.cands[1].data)
        /\ retryAttempt = 1
        /\ Len(NewRetryTimers) = 1 /\ NewRetryTimers[1].delay = RetryBase
        /\ out.ret = "false"

QueuedLoadResetsCounter ==
    /\ out.op = "loadDone" /\ out.info.outcome = "queued"
    /\ out.info.attempt >= 2 /\ retryAttempt = 1
    /\ Len(out.info.cands) = 2

\* the calls of the last step that the engine took as a restore
CommitCalls ==
    SelectSeq(out.calls, LAMBDA c :
        \/ c.api = "loadState" /\ LoadStateAccepts(out.info.engine, c.data)
        \/ c.api = "setState" /\ out.info.engine.setState = "ok"
        \/ c.api = "writeFile" /\ out.info.engine.fs = "ok")

\* C24: a load returns true exactly when a candidate came out restored, and
\* returns then: one call committed, with the bytes of the last candidate
\* attempted, it is the last call that carries bytes, and PendingState is
\* null; the candidates after it are not attempted.
RestoredLoadStops ==
    out.op = "loadDone" =>
        /\ (out.ret = "true") = (out.info.outcome = "restored")
        /\ out.ret = "true" =>
               /\ Len(CommitCalls) = 1
               /\ CommitCalls[1].data = out.info.cands[out.info.tried].data
               /\ \A k \in DOMAIN out.calls :
                      out.calls[k].data # <<>> =>
                          \E j \in 1..out.info.tried : out.calls[k].data = out.info.cands[j].data
               /\ emulator.state = out.info.cands[out.info.tried].data
                      \/ emulator.file = Some(out.info.cands[out.info.tried].data)
               /\ pendingState = None
        /\ out.ret = "false" => CommitCalls = <<>>

NewestRestoredOlderUntouched ==
    /\ out.op = "loadDone" /\ out.ret = "true"
    /\ Len(out.info.cands) = 2 /\ out.info.tried = 1
    /\ out.info.cands[1].data # out.info.cands[2].data
    /\ CallsOf("loadState") = <<Call("loadState", out.info.cands[1].data)>>

(***************************************************************************)
(* Properties of the retry chain (Spec, SpecDestroy).                      *)
(***************************************************************************)
\* the last step ran applyPendingState and it came out restored
JustRestored ==
    \/ out.op \in {"retryFire", "signalFire", "pollTick"} /\ out.ret = "restored"
    \/ out.op = "loadDone" /\ out.info.outcome = "restored"

\* C27 as stated: the retry counter is 0 after every successful restore,
\* whichever path performed it: the direct load, a retry timer or a ready,
\* game-start or poll signal.
CounterZeroAfterRestore == JustRestored => retryAttempt = 0

\* C29 as stated: at most one retry timer is outstanding per instance.
OneRetryTimer == Len(RetryTimers) <= 1

\* C30: the PendingState of an instance that is not destroyed is never
\* stranded: whenever it is non-null, a retry timer is scheduled.
PendingNeverStranded ==
    (~destroyed /\ pendingState # None) => RetryTimers # <<>>

StillQueuedRescheduled ==
    /\ out.op = "retryFire" /\ out.ret = "queued" /\ out.info.attempt >= 2
    /\ ~destroyed /\ pendingState # None /\ Len(RetryTimers) = 1

\* C28 as stated: for one PendingState at most maxRetries retry timers are
\* ever scheduled; a signal that finds the save still queued does not extend
\* the budget.
RetryBudgetKept == retries <= maxRetries

(***************************************************************************)
(* Properties of the startup load (SpecSignals).                           *)
(***************************************************************************)
\* C22: the automatic startup load is started at most once: a step starts a
\* load only when no startup load was started before, it starts one, not a
\* manual one, and records that; the record is never taken back, whichever
\* of the ready hook, the game-start hook and event, the fallbacks and the
\* poll fire afterwards.
StartupLoadOnce ==
    [][ /\ startupLoadAttempted => startupLoadAttempted'
        /\ Len(loads') > Len(loads) =>
               /\ Len(loads') = Len(loads) + 1
               /\ loads'[Len(loads')].reason # "manual"
               /\ ~startupLoadAttempted /\ startupLoadAttempted' ]_vars

SignalAfterAbandonedLoad ==
    /\ out.op \in {"signalFire", "pollTick"} /\ out.ret = "none"
    /\ out.info.pendingBefore = None /\ pendingState = None
    /\ startupLoadAttempted /\ loads = <<>>
    /\ emulator.status = "none"

(***************************************************************************)
(* Properties of startRomPlayer (SpecStart).                               *)
(***************************************************************************)
\* C21 as stated: when startRomPlayer resolves with a new instance, every
\* instance started before it had completed destroy() before the new
\* instance captured the hook slots, which then held the host's callbacks
\* or the wrappers of no live instance.
StartAfterEveryDestroy ==
    out.op = "startResolved" =>
        \A i \in DOMAIN out.info.before : out.info.before[i].status = "destroyed"

(***************************************************************************)
(* Properties of a load that finds no candidate (Spec).                    *)
(***************************************************************************)
\* C31 as stated: a manual load that finds no candidate leaves the
\* PendingState an earlier load queued as it was.
NoCandidateLoadKeepsPending ==
    (out.op = "loadDone" /\ out.info.reason = "manual" /\ out.info.cands = <<>>) =>
        pendingState = out.info.pendingBefore

(***************************************************************************)
(* Properties of the hook slots over several instances (SpecStart).        *)
(***************************************************************************)
\* C32 as stated: once every instance started has been destroyed, the hook
\* slots hold what the host had installed before the first instance: no
\* wrapper of a destroyed instance is left in a slot.
SlotsBackWithHost ==
    (/\ registry.instances # <<>> /\ registry.awaited = <<>>
     /\ \A i \in DOMAIN registry.instances : registry.instances[i].status = "destroyed")
        => registry.slot = 0

(***************************************************************************)
(* Properties of the backoff (Spec).                                       *)
(***************************************************************************)
\* C33: in a retry chain nothing interrupts, the n-th retry scheduled
\* (n = 1..8, the one outstanding after n - 1 have fired) has the delay
\* min(200 * 2^(n-1), 30000), below the cap; the delays of the retries that
\* fired add up to 200 * (2^k - 1) after k of them, each being double the one
\* before, and to 51000 for the whole chain.
BackoffDoubles ==
    chain.clean =>
        /\ \A i \in DOMAIN RetryTimers :
               /\ RetryTimers[i].delay = Min(200 * (2 ^ chain.fired), 30000)
               /\ RetryTimers[i].delay < 30000
               /\ chain.fired + 1 \in 1..8
        /\ chain.waited = 200 * ((2 ^ chain.fired) - 1)
        /\ (pendingState = None /\ chain.fired = maxRetries) => chain.waited = 51000

WholeChainWaited ==
    /\ chain.clean /\ chain.fired = 8 /\ chain.waited = 51000
    /\ out.op = "retryFire" /\ out.info.timersBefore[out.info.fired].delay = 25600
    /\ pendingState = None

(***************************************************************************)
(* Properties of the polling fallback (SpecSignals).                       *)
(***************************************************************************)
PollTimers == SelectSeq(timers, LAMBDA t : t.kind = "poll")

\* the engine has an event bus the game-start listener can be registered on
Registrable == emulator.status # "none" /\ emulator.events

\* C34: a poll is started by the ready wrapper and by nothing else, exactly
\* when the game-start listener could not be registered, with a period of
\* 200 ms; a tick cancels the poll exactly when it is the 50th or it sees an
\* engine with a gameManager, and a cancelled poll has left the runtime's
\* timers and the registry of intervals, so it does not tick again; no poll
\* ticks more than 50 times.
PollingBounded ==
    [][ /\ Len(PollTimers') > Len(PollTimers) => out'.op = "ready"
        /\ out'.op = "ready" =>
               /\ Len(PollTimers') = Len(PollTimers) + (IF Registrable THEN 0 ELSE 1)
               /\ \A i \in DOMAIN PollTimers' : PollTimers'[i].delay = 200
        /\ out'.op = "pollTick" =>
               /\ out'.info.count <= 50
               /\ (out'.info.count = 50 \/ emulator.status = "ready")
                      <=> Len(PollTimers') = Len(PollTimers) - 1
               /\ (out'.info.count < 50 /\ emulator.status # "ready")
                      <=> (Len(PollTimers') = Len(PollTimers) /\ activeIntervals' = activeIntervals)
               /\ Len(PollTimers') < Len(PollTimers) =>
                      /\ Cardinality(activeIntervals') = Cardinality(activeIntervals) - 1
                      /\ \A i \in DOMAIN timers' : timers'[i].id \notin activeIntervals \ activeIntervals'
      ]_vars

PollGaveUpAtFifty ==
    /\ out.op = "pollTick" /\ out.ret = "maxPolls" /\ out.info.count = 50
    /\ PollTimers = <<>> /\ activeIntervals = {}
    /\ emulator.status # "ready"

(***************************************************************************)
(* Properties of the wrappers (SpecSignals).                               *)
(***************************************************************************)
\* the timers the wrapper step added
WrapperTimers ==
    SubSeq(timers, Len(out.info.timersBefore) + 1, Len(timers))

\* C35: a firing of the ready or game-start wrapper calls the callback
\* captured at install time once, as the first thing it does: nothing is
\* scheduled and no listener registered by then; whether or not the callback
\* throws, the wrapper goes on to its restoration work: the game-start
\* wrapper schedules its 100 ms callback, the ready wrapper registers the
\* game-start listener and schedules its fallback, or starts the poll.
WrapperCallsPreviousFirst ==
    out.op \in {"ready", "onGameStart"} =>
        /\ out.calls = <<Call(IF out.op = "ready" THEN "previousReady"
                              ELSE "previousOnGameStart", <<>>)>>
        /\ out.info.atPrevious = <<Len(out.info.timersBefore), out.info.listenersBefore>>
        /\ Len(WrapperTimers) = 1
        /\ out.op = "onGameStart" =>
               WrapperTimers[1].kind = "onGameStart" /\ WrapperTimers[1].delay = 100
        /\ out.op = "ready" =>
               \/ WrapperTimers[1].kind = "readyFallback"
                      /\ listeners = out.info.listenersBefore + 1
               \/ WrapperTimers[1].kind = "poll" /\ listeners = out.info.listenersBefore

PreviousThrewWorkScheduled ==
    /\ out.op = "ready" /\ out.info.threw
    /\ out.calls = <<Call("previousReady", <<>>)>>
    /\ Len(WrapperTimers) = 1 /\ WrapperTimers[1].kind = "poll"
    /\ Len(timers) >= 2

(***************************************************************************)
(* Properties of the stored lists (SpecClock, SpecSave).                   *)
(***************************************************************************)
\* C36: whatever was written, with createNew or without, under any key and
\* at whatever time the clock showed, every list of saves stored under a key
\* is ordered by updatedAt, the greatest first.
StoredSavesSorted ==
    \A k \in Keys :
        store[k].kind = "multi" =>
            \A i \in DOMAIN store[k].saves : \A j \in DOMAIN store[k].saves :
                i < j => store[k].saves[i].updatedAt >= store[k].saves[j].updatedAt

EarlierWriteSortedBehind ==
    /\ Wrote(TRUE) /\ out.info.before.kind = "multi"
    /\ out.info.at < out.info.before.saves[1].updatedAt
    /\ Len(store[out.info.key].saves) >= 3
    /\ store[out.info.key].saves[Len(store[out.info.key].saves)] = WrittenSave

(***************************************************************************)
(* Properties of the write loop of persistState (SpecSave).                *)
(***************************************************************************)
\* C37: a write that fails under one key leaves that key's record as it was
\* and does not end the call: a manual save goes on to the next key with the
\* same payload and the same createNew, and after the last key it resolves
\* true, not rejected; the autosave of destroy() goes on to the next key
\* with the state it captured.
FailedWriteGoesOn ==
    /\ (out.op = "persistWrite" /\ out.ret = "error") =>
           /\ store[out.info.key] = out.info.before
           /\ out.info.idx < NumKeys =>
                  /\ out.info.returns = "pending"
                  /\ Len(persists) = out.info.writing
                  /\ \E j \in DOMAIN persists :
                         persists[j] = [out.info.call EXCEPT !.idx = out.info.idx + 1]
           /\ out.info.idx = NumKeys =>
                  out.info.returns = "true" /\ Len(persists) = out.info.writing - 1
    /\ (out.op = "destroyWrite" /\ out.ret = "error") =>
           /\ store[out.info.key] = out.info.before
           /\ out.info.key # persistenceKeys[NumKeys] =>
                  /\ destroyPhase = "saving" /\ destroyData = out.info.data
                  /\ \E k \in 2..NumKeys : destroyIdx = k /\ out.info.key = persistenceKeys[k - 1]

SecondKeyWrittenAfterFirstFailed ==
    /\ out.op = "persistWrite" /\ out.ret = "ok" /\ out.info.idx = 2
    /\ out.info.returns = "true"
    /\ store[persistenceKeys[2]].saves[1].data = out.info.call.data
    /\ store[persistenceKeys[1]].kind = "multi"
    /\ \A j \in DOMAIN store[persistenceKeys[1]].saves :
           store[persistenceKeys[1]].saves[j].data # out.info.call.data

(***************************************************************************)
(* Properties of deletion (SpecSave).                                      *)
(***************************************************************************)
\* C38: no step of a manual save or of destroy() deletes a record: a key
\* that holds a record holds one after the step, and every write the two
\* issue carries data.
NoRecordDeleted ==
    [][ /\ \A k \in Keys : store[k].kind # "absent" => store'[k].kind # "absent"
        /\ out'.op \in {"persistWrite", "destroyWrite"} => out'.info.data # None
      ]_vars

NothingCapturedNothingDeleted ==
    /\ out.op = "destroyCall" /\ emulator.status = "ready"
    /\ destroyData = None /\ destroyPhase = "releaseH"
    /\ store = MultiStore

(***************************************************************************)
(* The identity key list                                                   *)
(***************************************************************************)
\* the values of the metadata in the order persistId, id, alternateIds
GivenIds == <<config.metadata.persistId, config.metadata.id>> \o config.metadata.alternateIds

\* a string whose text without the blanks around it is the key
GivesKey(value, key) == value.isString /\ value.text \in {key, " " \o key \o " "}

\* the first place among the given values at which the key is given
FirstGivenAt(key) ==
    CHOOSE i \in DOMAIN GivenIds :
        /\ GivesKey(GivenIds[i], key)
        /\ \A j \in 1..(i - 1) : ~GivesKey(GivenIds[j], key)

\* C39: the key list of setupPersistentSave holds exactly the keys given as
\* strings in persistId, id and alternateIds, each without the blanks around
\* it; the empty string, a blank and a value that is no string give no key;
\* and the keys stand in the order of their first occurrences among persistId,
\* id, alternateIds, so that none stands twice.
IdentityKeysInFirstOccurrenceOrder ==
    LET keys == DedupKeys(config.ids)
    IN  /\ \A a \in DOMAIN keys :
               /\ keys[a] \in Keys
               /\ \E i \in DOMAIN GivenIds : GivesKey(GivenIds[i], keys[a])
        /\ \A i \in DOMAIN GivenIds, key \in Keys :
               GivesKey(GivenIds[i], key) => \E a \in DOMAIN keys : keys[a] = key
        /\ \A a, b \in DOMAIN keys :
               a < b => FirstGivenAt(keys[a]) < FirstGivenAt(keys[b])

PaddedFirstThenRepeated ==
    /\ config.metadata = [persistId |-> [isString |-> TRUE, text |-> " rom "],
                          id |-> [isString |-> FALSE, text |-> ""],
                          alternateIds |-> <<[isString |-> TRUE, text |-> "persist"],
                                             [isString |-> TRUE, text |-> "rom"]>>]
    /\ config.indexedDb
    /\ DedupKeys(config.ids) = <<"rom", "persist">>
    /\ EJS_ready = "wrapper" /\ previousReady = "host"
    /\ out.op = "engineAppear"

====
